SPECIFICATION Spec
CONSTANTS
    c1 = c1  c2 = c2  c3 = c3  r1 = r1  r2 = r2
    Contracts = {c1}
    Originals = {c1}
    Properties = {p1}
    Requests = {r1, r2}
    Cron = cron
    NoContract = none  NoProperty = noproperty
    NoticeDays = 1
    OfferDays = 1
    MaxTerm = 1
    MaxFaults = 0
    MaxInFlight = 2
PROPERTIES
    ReviewOnlyMarks
