------------------------------- MODULE MCSeeding -------------------------------
EXTENDS Seeding

\* Two accounts: those of a seeding that was interrupted, and the others.
MCAccount == {"employee", "director"}
=============================================================================
