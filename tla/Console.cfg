SPECIFICATION Spec
CONSTANTS
    here = here
    gone = gone
    locked = locked
    Models = {here, gone, locked}
    OldModels = {gone, locked}
    NoDirectory = {gone}
    NoFile = {}
    Unreadable = {locked}
    Times = {2}
    MaxFetches = 2
INVARIANT TypeOK
INVARIANT ProgressAgrees
INVARIANT OrderlyAnswersAreRight
INVARIANT WrongFileOnlyForMissing
PROPERTY ForgetsOnlyWhatIsGone
CHECK_DEADLOCK FALSE
