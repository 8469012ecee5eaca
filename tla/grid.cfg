\* Three entities on four by four positions in nine cells.
SPECIFICATION Spec
CONSTANTS
    hero = hero
    foe = foe
    door = door
    ref = ref
    Ids = {hero, foe, door}
    Coordinates <- MCCoordinates
    Proximities = {2, 3}
    Pointers = {ref}
    cellSize = 2
    Word = 8
SYMMETRY Symmetry
INVARIANTS TypeOK GridMatches NearbyIsExact ListsDiffer
