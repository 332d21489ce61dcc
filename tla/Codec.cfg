\* Words of 16 bits: a varint may take three bytes, a field number has eight
\* bits.  Up to three pieces of input, encoded again twice.
SPECIFICATION Spec
CONSTANTS
    WordSize = 16
    MaxHops = 2
    Inputs <- MCInputs
INVARIANTS
    InBounds
    SizeExact
    CodecsAgree
    RoundTrip
PROPERTY
    Advances
