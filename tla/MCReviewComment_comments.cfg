SPECIFICATION Spec
CHECK_DEADLOCK FALSE
CONSTANTS
    app = app
    user = user
    p1 = p1
    p2 = p2
    Actors = {app, user}
    Nobody = Nobody
    Publishers = {p1, p2}
    ActorOf <- ActorOfPublisher
    PageSize = 2
    SearchLimit = 4
    MaxComments = 4
    MaxReviews = 4
    MayDelete = TRUE
INVARIANTS OneCommentPerActor PublishedIsShown
PROPERTY OthersUntouched
