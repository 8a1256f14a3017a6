\* One upload, and others who put a link at its destination.
CONSTANTS
    Uploads = {u1}
    Foreign = {f}
    Link = link
    Nothing = nothing
SPECIFICATION Spec
PROPERTIES LinksAreNotOverwritten
