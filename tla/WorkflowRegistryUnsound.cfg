SPECIFICATION Spec
CONSTANTS
    v1 = v1  v2 = v2  v3 = v3  h1 = h1  h2 = h2  None = None
    Version = {v1, v2, v3}
    Shipped = v1
    Definition <- MCDefinition
    ShippedDefinition <- Template
    Handler = {h1, h2}
INVARIANT
    PublishedIsSound
