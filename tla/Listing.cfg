SPECIFICATION Spec
CONSTANTS
    Images = {i1, i2}
    Documents = {d1, d2}
    NoFile = nofile
    AdminSets = {"pending", "active", "inactive", "rejected", "archived"}
    MaxImages = 1
    MaxEdits = 3
    Requests = {r1, r2}
    MaxFailures = 1
    MaxRents = 2
SYMMETRY Symmetry
CONSTRAINTS
    FilesOrModeration
    NothingDeletedEarly
INVARIANTS
    TypeOK
    ActiveWasApproved
    ImagesLimited
    FilesExist
PROPERTIES
    OnlyAdminRevives
    RentedIsTheContracts
