SPECIFICATION FairSpec
CONSTANTS
    Slots = {s1, s2}
    Languages <- ThreeLanguages
    MaxArrivals = 3

    
PROPERTIES
    SlotsStop
    EveryLanguageServed
