CONSTANTS
    Ppms <- SomePpms
    Rates <- SomeRates
    R820tFreqs <- AllOfR820t
    Fc0012Freqs <- AllOfFc0012
SPECIFICATION Spec
INVARIANTS
    RateAsRequested
    FilterCoversRate
    PllHitsTarget
    DividersHitTarget
