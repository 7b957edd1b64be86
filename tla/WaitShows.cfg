SPECIFICATION Spec
CONSTANTS
    b = b
    h1 = h1
    h2 = h2
    r = r
    m1 = m1
    m2 = m2
    p = p
    s = s
    u = u
    None = None
    Activities = {b, h1, h2, m1, p, s, u}
    KindOf <- MCKindOf
    MaxVisits = 2
    RadioBuild = FALSE
    SplashBoot = TRUE
PROPERTY WaitShowsTheState
