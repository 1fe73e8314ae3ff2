-------------------------- MODULE PropagationFeeds --------------------------
(***************************************************************************)
(* The cache of outside data (propagation/feeds.py) under concurrent       *)
(* requests: threads of the HTTP server.  Each looks the values up under   *)
(* the lock, fetches them without it when they are old, and stores them    *)
(* under the lock again, with the time at which it was asked.  A snapshot  *)
(* (build_snapshot) asks for space weather, then for HamQSL, with one time *)
(* for both; an image is asked for by itself.                              *)
(*                                                                         *)
(* A value stands for its content: the time at which the other side gave   *)
(* it out.  A fetch of several documents counts as one.                    *)
(***************************************************************************)
EXTENDS Naturals

CONSTANTS Requests,   \* threads that serve a request
          Ttl,        \* NOAA_TTL, HAMQSL_TTL and IMAGE_TTL, in ticks
          MaxFeedTime \* bound: the clock

Kinds == {"space", "hamqsl", "image"}

ASSUME FeedsAssumption == Ttl \in [Kinds -> Nat \ {0}] /\ MaxFeedTime \in Nat \ {0}

VARIABLES feedClock, \* the clock
          feed,      \* the values of each kind and the time they are dated; 0: none
          request,   \* what each thread is doing
          reply      \* (history) the answer that the step gave

feedVars == <<feedClock, feed, request, reply>>

FeedTimes == 0..MaxFeedTime
NoReply   == [kind |-> "image", value |-> 0, stale |-> TRUE, moment |-> 0, held |-> 0]
Idle      == [pc |-> "idle", kind |-> "image", moment |-> 0, cached |-> 0, got |-> 0]

\* A request for the values of a kind, at a time.
Asked(kind, moment) ==
    [pc |-> "asked", kind |-> kind, moment |-> moment, cached |-> 0, got |-> 0]

FeedsTypeOK ==
    /\ feedClock \in FeedTimes
    /\ feed \in [Kinds -> [value : FeedTimes, at : FeedTimes]]
    /\ request \in [Requests -> [pc : {"idle", "asked", "fresh", "fetch", "fetched"},
                                 kind : Kinds, moment : FeedTimes, cached : FeedTimes,
                                 got : FeedTimes]]
    /\ reply \in [kind : Kinds, value : FeedTimes, stale : BOOLEAN, moment : FeedTimes,
                  held : FeedTimes]

FeedsInit ==
    /\ feedClock = 1
    /\ feed = [k \in Kinds |-> [value |-> 0, at |-> 0]]
    /\ request = [r \in Requests |-> Idle]
    /\ reply = NoReply

-----------------------------------------------------------------------------
\* api_propagation, or api_propagation_image
Ask(r, kind) ==
    /\ request[r].pc = "idle" /\ kind # "hamqsl"
    /\ request' = [request EXCEPT ![r] = Asked(kind, feedClock)]
    /\ reply' = NoReply
    /\ UNCHANGED <<feedClock, feed>>

\* build_snapshot: HamQSL is asked for once space weather has been answered.
Proceed(r) ==
    request' = [request EXCEPT ![r] =
        IF @.kind = "space" THEN Asked("hamqsl", @.moment) ELSE Idle]

\* The answer to r.
Answer(r, value, stale) ==
    /\ reply' = [kind |-> request[r].kind, value |-> value, stale |-> stale,
                 moment |-> request[r].moment, held |-> request[r].cached]
    /\ Proceed(r)

\* What is cached is not older than its time to live; it may be dated after the
\* request.
Fresh(kind, moment) ==
    feed[kind].value # 0 /\ moment < feed[kind].at + Ttl[kind]

\* With the lock: an image that is fresh is the answer.
LookUp(r) ==
    /\ request[r].pc = "asked"
    /\ LET kind  == request[r].kind
           fresh == Fresh(kind, request[r].moment)
       IN IF fresh /\ kind = "image"
          THEN Answer(r, feed[kind].value, FALSE)
          ELSE /\ request' = [request EXCEPT ![r].pc = IF fresh THEN "fresh" ELSE "fetch",
                                             ![r].cached = feed[kind].value]
               /\ reply' = NoReply
    /\ UNCHANGED <<feedClock, feed>>

\* Without the lock: the values that were looked up.
AnswerFresh(r) ==
    /\ request[r].pc = "fresh"
    /\ Answer(r, request[r].cached, FALSE)
    /\ UNCHANGED <<feedClock, feed>>

\* The fetch ends: with values, or with an error or a timeout of every document.
Fetch(r) ==
    /\ request[r].pc = "fetch"
    /\ \E got \in {0, feedClock} :
          request' = [request EXCEPT ![r].pc = "fetched", ![r].got = got]
    /\ reply' = NoReply
    /\ UNCHANGED <<feedClock, feed>>

\* (mutant) The values are dated when they are stored.
DatedWhenStored(r) == [value |-> request[r].got, at |-> feedClock]

\* The values as they are stored, dated when they were asked for.
Dated(r) == [value |-> request[r].got, at |-> request[r].moment]

\* With the lock again: values replace what is there.
Store(r) ==
    /\ request[r].pc = "fetched" /\ request[r].got # 0
    /\ feed' = [feed EXCEPT ![request[r].kind] = Dated(r)]
    /\ Answer(r, request[r].got, FALSE)
    /\ UNCHANGED feedClock

\* What is left to answer: the values that were looked up; of an image, those
\* that are there now.
OldValue(r) ==
    IF request[r].kind = "image" THEN feed["image"].value ELSE request[r].cached

\* Nothing was fetched: the old values.
AnswerStale(r) ==
    /\ request[r].pc = "fetched" /\ request[r].got = 0
    /\ Answer(r, OldValue(r), TRUE)
    /\ UNCHANGED <<feedClock, feed>>

FeedTick ==
    /\ feedClock < MaxFeedTime /\ feedClock' = feedClock + 1 /\ reply' = NoReply
    /\ UNCHANGED <<feed, request>>

FeedSteps(r) == LookUp(r) \/ AnswerFresh(r) \/ Fetch(r) \/ Store(r) \/ AnswerStale(r)

FeedsNext ==
    \/ FeedTick
    \/ \E r \in Requests : FeedSteps(r) \/ \E kind \in Kinds : Ask(r, kind)

\* Threads are scheduled, and every fetch ends, by its timeout of 8 s at last.
FeedsFairness == \A r \in Requests : WF_feedVars(FeedSteps(r))

-----------------------------------------------------------------------------
\* Values that are not marked stale were given out less than their time to live
\* before they were asked for, though a slow request may store older values, with
\* an older date, over those of a quicker one.
FreshIsRecent ==
    reply.value # 0 /\ ~reply.stale => reply.moment < reply.value + Ttl[reply.kind]

\* Values are never dated after the time at which they were given out.
NeverPostdated == \A k \in Kinds : feed[k].at <= feed[k].value

\* A failed refresh keeps the values that were known when it was asked for.
FailureKeepsValues == reply.held # 0 => reply.value # 0

\* A snapshot is answered, whatever the other requests and the other side do.
SnapshotAnswered ==
    \A r \in Requests : request[r].pc # "idle" ~> request[r].pc = "idle"

\* What a request is given is as recent as it is said to be, and no less than was known,
\* in whatever order concurrent requests fetch and store.
ReplyIsHonest == FreshIsRecent /\ NeverPostdated /\ FailureKeepsValues
=============================================================================
