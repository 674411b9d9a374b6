\* Two layers of two contents, and two writes of their files.
CONSTANTS
    a = a
    b = b
    x = x
    y = y
    n = n
    Layer = {a, b}
    Content = {x, y}
    Name = {n}
    MaxVersion = 3
SYMMETRY Symmetry
CONSTRAINT FewWrites
SPECIFICATION Spec
INVARIANTS TypeOK FilesAreWhole FreshMeansSame CleanMeansStored
PROPERTIES EditsAreKept ReloadIsCurrent
