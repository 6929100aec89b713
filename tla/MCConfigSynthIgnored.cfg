CONSTANTS
    DetailKeys <- MCDetailKeysIgnored

SPECIFICATION Spec

INVARIANT
    SynthesisFaithful
