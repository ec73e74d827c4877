SPECIFICATION Spec
CONSTANTS
    js = js
    html = html
    extra = extra
    Files = {js, html, extra}
    Served = {js, html}
    Main = js
    Releases = {1, 2, 3, 4, 5}
    BuiltIn = 1
    Assets <- MCAssets
    Size <- MCSize
    Pages = 4
    Erased = Erased
    Garbage = Garbage
INVARIANTS
    TypeOK
    OneRelease
    RestartKeepsSite
PROPERTIES
    ImplementsSite
