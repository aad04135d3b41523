CONSTANTS
    alice = alice
    bob = bob
    ka = ka
    png = png
    PNG = PNG
    pdf = pdf
    exe = exe
    pod1 = pod1
    pod2 = pod2
    None = None
    Users = {alice, bob}
    Keys = {ka}
    OwnerOf <- MCOwnerOf
    Types = {png, PNG, pdf, exe}
    Normal <- MCNormal
    Allowed = {png, pdf}
    MaxBytes = 1
    Expiry = 1
    Pods = {pod1, pod2}
    Attempts = 3
    MaxTime = 2
    MaxSize = 2
    MaxUploads = 3
    MaxSends = 2
    MaxOutages = 2
SYMMETRY Interchangeable
SPECIFICATION Spec
INVARIANTS TypeOK UploadsAccepted AttachmentsSound CheckedIsKept BootstrapSound
CHECK_DEADLOCK FALSE
