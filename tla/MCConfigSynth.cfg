CONSTANTS
    DetailKeys <- MCDetailKeys

SPECIFICATION Spec

INVARIANTS
    SynthesisFaithful
