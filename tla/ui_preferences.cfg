SPECIFICATION Spec
CONSTANTS
    Tabs = {p1, p2}
    Sections = {nav, dashboard}
INVARIANTS LivePagesAgree ShownIsSaved ClicksChangeThePage
