SPECIFICATION Spec
CONSTANTS
    Old = Old
    New = New
    CAs <- MCCAs
    Bundles <- MCBundles
    Handlers = {h1}
    VerifyCap = 1
    MaxRestarts = 2
    MaxLosses = 1
INVARIANT VerdictInForceUnlessTorn
PROPERTY ImplementsAnchors
PROPERTY BundleArrives
