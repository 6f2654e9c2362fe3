CONSTANTS
    Page = 1
    PageMax = 2
    SearchLimit = 2
    NeighborLimit = 2
    Links <- MCLinks
    MaxRows <- MCRows
    MaxDetail = 2
SPECIFICATION ConsoleSpec
INVARIANTS KeysReachRows PagesContiguous EndIsTheEnd
