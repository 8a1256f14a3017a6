CONSTANTS
    Uploads = {u1, u2}
    Foreign = {f}
    Link = link
    Nothing = nothing
SPECIFICATION Spec
INVARIANTS TempStaysPrivate NoLitter
PROPERTIES ImplementsFile EveryUploadEnds
