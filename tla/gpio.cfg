SPECIFICATION Spec
CONSTANTS
    t1 = t1  t2 = t2  p1 = p1  p2 = p2  bad = bad
    Threads = {t1, t2}
    Pins = {p1, p2}
    BadPin = bad
    GroupOf <- MCGroupOf
    DogPin = p1
    Families = {"p204x", "mpc8308", "ls1021", "mpc8548"}
    Requests <- OneWriter
INVARIANTS TypeOK SetTakesEffect
PROPERTIES OthersKept FeedToggles
