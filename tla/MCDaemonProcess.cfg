SPECIFICATION ProcessSpec
CONSTANTS
    Calls = {w, x, y, z}
    Daemons = {d1, d2, d3}
    NoDaemon = NoDaemon
SYMMETRY Symmetry
INVARIANT TwoDaemonsNeedALapse
CHECK_DEADLOCK FALSE
