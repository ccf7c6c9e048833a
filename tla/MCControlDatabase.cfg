CONSTANTS
    demo = demo
    lab = lab
    other = other
    slug1 = slug1
    slug2 = slug2
    ann = ann
    m1 = m1
    m2 = m2
    c1 = c1
    c2 = c2
    Stores = {"memory", "postgres"}
    AppNames = {demo, lab, other}
    SeededApps = {demo, lab}
    SeededKeys = {demo}
    Slug <- MCSlug
    DemoSlug <- MCDemoSlug
    Emails = {ann}
    Clients = {c1, c2}
    Migrators = {m1, m2}
    Files = 3
    MaxFailures = 2
    MaxApps = 3
    MaxKeys = 4
    MaxUsers = 1
    MaxSeconds = 1
    MaxSeedings = 2
    MaxCalls = 3
SPECIFICATION FairControlSpec
CHECK_DEADLOCK FALSE
INVARIANTS
    ControlTypeOK
    SchemaExact
    RotatedOut
    KeyListed
    SnapshotClosed
PROPERTY MigrationsFinish
