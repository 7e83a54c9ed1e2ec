SPECIFICATION Spec
CONSTANTS
    day = day
    week = week
    outlook = outlook
    aurora = aurora
    Windows <- TwoWindows
    Images <- TwoImages
    Tabs <- TwoTabs
INVARIANTS ChartShowsLatest ImageOldOnlyByCacheOrGap NoStreamLeaks
PROPERTIES ChartSettles
