----------------------------- MODULE MCEvidence -----------------------------
(***************************************************************************)
(* A small instance of Evidence: one chunk of one document, since no step  *)
(* and no property relates two chunks or two documents.                    *)
(***************************************************************************)
EXTENDS Evidence

Law == [quality |-> "ACCEPTED", domain |-> "COMPLIANCE_AML", synthetic |-> FALSE,
        disclaimer |-> FALSE, active |-> TRUE, intact |-> TRUE, numbered |-> TRUE, text |-> "t1"]
Demo == [Law EXCEPT !.quality = "DEMO_ONLY", !.synthetic = TRUE, !.disclaimer = TRUE,
                    !.domain = "OTHER", !.active = FALSE]

\* Law as it should be, reworded, on another subject; a synthetic chunk marked
\* accepted; a chunk under review; demo policy.
MCShape == {Law, [Law EXCEPT !.text = "t2"], [Law EXCEPT !.domain = "LENDING_REGULATION"],
            [Law EXCEPT !.synthetic = TRUE], [Law EXCEPT !.quality = "REVIEW_REQUIRED"], Demo}

Official == [verification |-> "VERIFIED", official |-> TRUE, url |-> TRUE, hash |-> TRUE,
             active |-> TRUE, domain |-> "COMPLIANCE_AML"]
Policy == [Official EXCEPT !.verification = "DEMO_ONLY", !.official = FALSE, !.url = FALSE,
                           !.domain = "OTHER"]

\* A verified law, one without its source's hash, one under review, a policy.
MCListing == {Official, [Official EXCEPT !.hash = FALSE],
              [Official EXCEPT !.verification = "PENDING"], Policy}

MCDocumentOf == [c \in Chunk |-> CHOOSE d \in Document : TRUE]
=============================================================================
