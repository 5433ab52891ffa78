------------------------------ MODULE Receiver ------------------------------
(* The webhook server (internal/webhook, cmd/kibitz-server): one handler per  *)
(* request takes a delivery through verification, normalisation and policy    *)
(* to the queue, answers the forge, then reacts and wakes the worker. The     *)
(* queue is Pub/Sub, whose client sends in the background and pauses an       *)
(* ordering key after a failure, or the in-process queue.                     *)
EXTENDS Policy, MemoryQueue

GitHub == INSTANCE GitHubHook
GitLab == INSTANCE GitLabHook
Azure == INSTANCE AzureHook

CONSTANTS
    Slots,        \* requests the server may have at once, and the forges make
    Scenarios,    \* a sequence; each: the queue it is built with ("pubsub", "memory"), per
                  \* slot the deliveries that may arrive there, and how many calls
                  \* fail or time out, processes stop or die, ... (faults)
    Config,       \* credentials and policy
    Reactors,     \* the platforms the server may react on
    MaxAttempts   \* attempts to publish

ASSUME ReceiverAssumption ==
    /\ MaxAttempts \in Nat \ {0}
    /\ \A c \in DOMAIN Scenarios : /\ Scenarios[c].backend \in {"pubsub", "memory"}
                                   /\ Scenarios[c].faults \in Nat

VARIABLES
    scenario,  \* chosen at the start
    server,    \* "up", "draining" (no new request), "closing", "gone"
    requests,  \* per slot, how far its request is
    outgoing,  \* Pub/Sub's client: per ordering key what it has not sent yet
    paused,    \* ordering keys the client refuses until they are resumed
    topic,     \* what the queue accepted, and from which slot
    woken,     \* the slots whose handler called the waker
    faults

vars == <<scenario, server, requests, outgoing, paused, topic, woken, faults, qvars>>

Free == [at |-> "free", r |-> <<>>, event |-> <<>>, attempt |-> 0, expired |-> FALSE,
         status |-> 0, reaction |-> "", reacted |-> "", closedOn |-> FALSE]

-----------------------------------------------------------------------------
(* From the request to the decision: no shared state is touched.              *)

Verify(r) ==
    CASE r.platform = "github" -> GitHub!Verify(Config.github, r)
      [] r.platform = "gitlab" -> GitLab!Verify(Config.tokens, Config.keys, Config.maxSkew, r)
      [] OTHER -> Azure!Verify(Config.azure, r)

Normalize(r) ==
    CASE r.platform = "github" -> GitHub!Normalize(r)
      [] r.platform = "gitlab" -> GitLab!Normalize(r)
      [] OTHER -> Azure!Normalize(r)

Answer(status) == [Free EXCEPT !.at = "done", !.status = status]

(* What the handler decides before it publishes; a refusal is answered and    *)
(* then said on the comment.                                                  *)
Decide(r) ==
    LET verdict == Verify(r)
        normal == Normalize(r)
        decision == Evaluate(Config.policy, normal.event)
    IN  IF r.http = "get" THEN Answer(405)
        ELSE IF r.http = "huge" THEN Answer(413)
        ELSE IF r.http = "broken" THEN Answer(400)
        ELSE IF verdict # "ok"
        THEN Answer(CASE verdict = "no_secrets" -> 500 [] verdict = "missing" -> 400
                      [] OTHER -> 401)
        ELSE IF normal.is = "malformed" THEN Answer(400)
        ELSE IF normal.is = "ignored" THEN Answer(204)
        ELSE IF Refused(decision)
        THEN [Free EXCEPT !.at = "react", !.event = <<decision.event>>, !.status = 204,
                          !.reaction = "refused"]
        ELSE IF ~decision.publish THEN Answer(204)
        ELSE [Free EXCEPT !.at = "publish", !.event = <<decision.event>>, !.attempt = 1]

Decisions == [c \in DOMAIN Scenarios |-> [s \in Slots |->
                {[Decide(r) EXCEPT !.r = <<r>>] : r \in Scenarios[c].deliveries[s]}]]

(* The ordering keys there can be. *)
Keys == LET decided == UNION {Decisions[scenario][s] : s \in Slots}
        IN  {Key(d.event[1]) : d \in {d \in decided : d.event # Nil}}

-----------------------------------------------------------------------------
Init ==
    /\ scenario \in DOMAIN Scenarios
    /\ server = "up"
    /\ requests = [s \in Slots |-> Free]
    /\ outgoing = [key \in Keys |-> <<>>]
    /\ paused = {}
    /\ topic = <<>>
    /\ woken = {}
    /\ faults = 0
    /\ QueueInit

Backend == Scenarios[scenario].backend
MayFail == Scenarios[scenario].faults

Blame == faults < MayFail /\ faults' = faults + 1
KeyOf(s) == Key(requests[s].event[1])
Moved(s, at) == [requests EXCEPT ![s].at = at]

ServeHTTP(s) ==
    /\ server = "up"
    /\ requests[s].at = "free"
    /\ \E answer \in Decisions[scenario][s] : requests' = [requests EXCEPT ![s] = answer]
    /\ UNCHANGED <<scenario, server, outgoing, paused, topic, woken, faults, qvars>>

-----------------------------------------------------------------------------
(* Publishing, with a few attempts inside one deadline.                       *)

(* The client takes the message, unless its key is paused or it was stopped.  *)
PublishPubSub(s) ==
    /\ Backend = "pubsub" /\ requests[s].at = "publish"
    /\ IF KeyOf(s) \in paused \/ server \in {"closing", "gone"}
       THEN requests' = Moved(s, "failed") /\ UNCHANGED outgoing
       ELSE /\ requests' = Moved(s, "flight")
            /\ outgoing' = [outgoing EXCEPT ![KeyOf(s)] =
                               Append(@, [slot |-> s, attempt |-> requests[s].attempt])]
    /\ UNCHANGED <<scenario, server, paused, topic, woken, faults, qvars>>

PublishMemory(s) ==
    /\ Backend = "memory" /\ requests[s].at = "publish"
    /\ IF closed
       THEN requests' = Moved(s, "failed") /\ UNCHANGED <<topic, qvars>>
       ELSE /\ requests' = Moved(s, "published")
            /\ topic' = Append(topic, s)
            /\ Publish([slot |-> s, n |-> Len(topic)])
    /\ UNCHANGED <<scenario, server, outgoing, paused, woken, faults>>

Waits(m) == requests[m.slot].at = "flight" /\ requests[m.slot].attempt = m.attempt

(* In order for one key. Whoever still waits is told.                         *)
Sent(key) ==
    /\ outgoing[key] # <<>>
    /\ LET m == Head(outgoing[key])
       IN  /\ topic' = Append(topic, m.slot)
           /\ requests' = IF Waits(m) THEN Moved(m.slot, "published") ELSE requests
    /\ outgoing' = [outgoing EXCEPT ![key] = Tail(@)]
    /\ UNCHANGED <<scenario, server, paused, woken, faults, qvars>>

(* The call failed, or only its answer was lost. The key is paused, and what  *)
(* else the client holds for it fails with it.                                *)
NotSent(key) ==
    LET held == Range(outgoing[key])
        told == {m.slot : m \in {n \in held : Waits(n)}}
    IN  /\ Blame
        /\ outgoing[key] # <<>>
        /\ topic' \in {topic, Append(topic, Head(outgoing[key]).slot)}
        /\ outgoing' = [outgoing EXCEPT ![key] = <<>>]
        /\ paused' = paused \union {key}
        /\ requests' = [s \in Slots |-> IF s \in told
                                        THEN [requests[s] EXCEPT !.at = "failed"]
                                        ELSE requests[s]]
        /\ UNCHANGED <<scenario, server, woken, qvars>>

(* The deadline of all attempts together passes; the client goes on sending.  *)
DeadlineInFlight(s) ==
    /\ Blame
    /\ requests[s].at = "flight"
    /\ requests' = [requests EXCEPT ![s].at = "failed", ![s].expired = TRUE]
    /\ UNCHANGED <<scenario, server, outgoing, paused, topic, woken, qvars>>

GaveUp(s) == [requests EXCEPT ![s].at = "done", ![s].status = 503]

(* Mutant: the key stays paused. *)
LeavePaused(s) ==
    /\ requests[s].at = "failed"
    /\ requests' = IF requests[s].expired \/ requests[s].attempt = MaxAttempts
                   THEN GaveUp(s) ELSE Moved(s, "backoff")
    /\ UNCHANGED <<scenario, server, outgoing, paused, topic, woken, faults, qvars>>

(* The failed publish resumes its key, and is retried after a backoff or      *)
(* answered with a request to try again.                                      *)
ResumePublish(s) ==
    /\ requests[s].at = "failed"
    /\ paused' = paused \ {KeyOf(s)}
    /\ requests' = IF requests[s].expired \/ requests[s].attempt = MaxAttempts
                   THEN GaveUp(s) ELSE Moved(s, "backoff")
    /\ UNCHANGED <<scenario, server, outgoing, topic, woken, faults, qvars>>

Backoff(s) ==
    /\ requests[s].at = "backoff"
    /\ requests' = [requests EXCEPT ![s].at = "publish", ![s].attempt = @ + 1]
    /\ UNCHANGED <<scenario, server, outgoing, paused, topic, woken, faults, qvars>>

DeadlineInBackoff(s) ==
    /\ Blame
    /\ requests[s].at = "backoff"
    /\ requests' = [GaveUp(s) EXCEPT ![s].expired = TRUE]
    /\ UNCHANGED <<scenario, server, outgoing, paused, topic, woken, qvars>>

-----------------------------------------------------------------------------
(* After the decision: answer, react, wake, in this order and in the handler. *)

AnswerAccepted(s) ==
    /\ requests[s].at = "published"
    /\ requests' = [requests EXCEPT ![s].at = "react", ![s].status = 202, ![s].reaction = "seen"]
    /\ UNCHANGED <<scenario, server, outgoing, paused, topic, woken, faults, qvars>>

(* Azure DevOps has nothing but a like, which would say the opposite of no.   *)
Supported(c, reaction) == c.platform = "azure_devops" => reaction = "seen" /\ ~c.onIssue

(* Mutant: an event without a comment to react on ends there. *)
ReactOrDone(s) ==
    /\ requests[s].at = "react"
    /\ requests' = Moved(s, IF CommentOf(requests[s].event[1]) # Nil /\ requests[s].status = 202
                            THEN "wake" ELSE "done")
    /\ UNCHANGED <<scenario, server, outgoing, paused, topic, woken, faults, qvars>>

(* A reaction that fails is logged and changes nothing else.                  *)
React(s) ==
    /\ requests[s].at = "react"
    /\ LET c == CommentOf(requests[s].event[1])
           may == /\ c # Nil /\ requests[s].r[1].platform \in Reactors
                  /\ Supported(c[1], requests[s].reaction)
           next == IF requests[s].status = 202 THEN "wake" ELSE "done"
       IN  \/ /\ requests' = [requests EXCEPT ![s].at = next,
                                 ![s].reacted = IF may THEN requests[s].reaction ELSE ""]
              /\ UNCHANGED faults
           \/ may /\ Blame /\ requests' = Moved(s, next)
    /\ UNCHANGED <<scenario, server, outgoing, paused, topic, woken, qvars>>

Wake(s) ==
    /\ requests[s].at = "wake"
    /\ woken' = woken \union {s}
    /\ requests' = Moved(s, "done")
    /\ UNCHANGED <<scenario, server, outgoing, paused, topic, faults, qvars>>

-----------------------------------------------------------------------------
(* The life of the process: httpx.Serve, run.Group and the deferred Close.    *)

Busy(s) == requests[s].at \notin {"free", "done", "cut"}

(* A signal, or the other listener failed and took this one along.            *)
Stop ==
    /\ Blame
    /\ server = "up"
    /\ server' = "draining"
    /\ UNCHANGED <<scenario, requests, outgoing, paused, topic, woken, qvars>>

(* Shutdown returns when no handler runs; after the shutdown time the         *)
(* connections are closed and the handlers go on until the process ends.      *)
Drain ==
    /\ server = "draining"
    /\ \/ (\A s \in Slots : ~Busy(s)) /\ UNCHANGED faults
       \/ (\E s \in Slots : Busy(s)) /\ Blame
    /\ server' = "closing"
    /\ Close
    /\ requests' = [s \in Slots |-> [requests[s] EXCEPT !.closedOn = @ \/ Busy(s)]]
    /\ UNCHANGED <<scenario, outgoing, paused, topic, woken>>

CutOff == [s \in Slots |-> IF Busy(s) THEN [requests[s] EXCEPT !.at = "cut"] ELSE requests[s]]

(* Closing the publisher sends what it still has.                             *)
Exit ==
    /\ server = "closing" /\ \A key \in DOMAIN outgoing : outgoing[key] = <<>>
    /\ server' = "gone"
    /\ requests' = CutOff
    /\ UNCHANGED <<scenario, outgoing, paused, topic, woken, faults, qvars>>

Crash ==
    /\ Blame
    /\ server \in {"up", "draining", "closing"}
    /\ server' = "gone"
    /\ requests' = CutOff
    /\ outgoing' = [key \in DOMAIN outgoing |-> <<>>]
    /\ UNCHANGED <<scenario, paused, topic, woken, qvars>>

(* Another instance takes over; it has a client of its own.                   *)
Start ==
    /\ Blame
    /\ server = "gone" /\ Backend = "pubsub"
    /\ server' = "up"
    /\ paused' = {}
    /\ UNCHANGED <<scenario, requests, outgoing, topic, woken, qvars>>

-----------------------------------------------------------------------------
Handle(s) ==
    \/ PublishPubSub(s) \/ PublishMemory(s)
    \/ DeadlineInFlight(s) \/ ResumePublish(s) \/ Backoff(s) \/ DeadlineInBackoff(s)
    \/ AnswerAccepted(s) \/ React(s) \/ Wake(s)

Send == \E key \in DOMAIN outgoing : Sent(key) \/ NotSent(key)

Consume(r) ==
    /\ Backend = "memory" /\ server # "gone"
    /\ Receive(r)
    /\ UNCHANGED <<scenario, server, requests, outgoing, paused, topic, woken, faults>>

CancelConsumers ==
    /\ Backend = "memory" /\ Blame
    /\ ~cancelled
    /\ Cancel
    /\ UNCHANGED <<scenario, server, requests, outgoing, paused, topic, woken>>

Next ==
    \/ \E s \in Slots : ServeHTTP(s) \/ Handle(s)
    \/ Send
    \/ Stop \/ Drain \/ Exit \/ Crash \/ Start
    \/ \E r \in Receivers : Consume(r)
    \/ CancelConsumers

Spec == Init /\ [][Next]_vars

(* Handlers and the client's sender go on; nothing need arrive, fail or be    *)
(* stopped.                                                                   *)
FairSpec == Spec /\ WF_vars(Send) /\ \A s \in Slots : WF_vars(Handle(s))

-----------------------------------------------------------------------------
(* A delivery also says what is true of it, for the properties: genuine (its  *)
(* sender knew a credential), change (what it is about), writer (whose words  *)
(* or deed it is), asks (what its text asks for, read by a person: "nothing", *)
(* "question" or a command) and old (how long ago it happened).               *)

(* Nobody but the forge has a credential, and nobody plays a signed delivery  *)
(* back while its timestamp is fresh.                                         *)
HoldsCredential(r) ==
    CASE r.platform = "github" -> r.signedWith \in Config.github
      [] r.platform = "gitlab" ->
            \/ r.token \in Config.tokens
            \/ r.signedWith \intersect Config.keys # {} /\ r.skew # Nil
               /\ ~(Head(r.skew) > Config.maxSkew)
      [] OTHER ->
            LET c == Config.azure
            IN  /\ c.passwords # {} => r.basic # Nil /\ r.basic[1] = c.user /\ r.basic[2] \in c.passwords
                /\ c.headerValues # {} => r.header \in c.headerValues
                /\ c.passwords # {} \/ c.headerValues # {}

Author(e) == IF e.comment # Nil /\ e.comment[1].author # "" THEN e.comment[1].author ELSE e.actor
OnTheList(platform, login) ==
    \/ Config.policy.commenters = {}
    \/ \E entry \in Config.policy.commenters :
          entry.platform \in {"", platform} /\ entry.login \in {"*", login}

(* A description fits what the handlers of the platform read of the delivery; *)
(* what a comment asks for is taken from its text as the forge renders it.    *)
Fits(r, e) ==
    /\ r.old = e.age /\ e.age \in Nat
    /\ r.change = <<e.platform, e.repo>> \o (IF e.issue # Nil THEN <<"issue", e.issue[1]>>
                                                              ELSE <<"pull", e.pull[1]>>)
    /\ e.repo \in Seq(Range(e.repo)) /\ (e.platform = "github" => Len(e.repo) = 3)
    /\ \A i \in DOMAIN Config.policy.allowedRepos :
          LET pattern == Config.policy.allowedRepos[i]
          IN  Match(pattern, e.repo) => Matches(pattern, e.repo)
    /\ \/ r.writer = Author(e) /\ r.writer # ""
       \/ e.comment # Nil /\ e.comment[1].app = Config.policy.appID /\ Config.policy.appID # ""
    /\ e.comment # Nil =>
          /\ e.comment[1].text \in Seq(Range(e.comment[1].text))
          /\ r.asks = AskedOf(e.comment[1].text, Config.policy.mention)
          /\ <<r.platform, r.writer>> \in Config.mayAsk <=> OnTheList(r.platform, r.writer)

ASSUME DescriptionAssumption ==
    /\ Config.ourselves \subseteq Config.policy.botLogins
    /\ Config.policy.maxEventAge \in Nat \ {0}
    /\ \A c \in DOMAIN Scenarios : \A s \in Slots : \A r \in Scenarios[c].deliveries[s] :
          /\ HoldsCredential(r) => r.genuine
          /\ Normalize(r).is = "event" => Fits(r, Normalize(r).event)

Payload(s) == requests[s].r[1]
Event(s) == requests[s].event[1]
Published == {topic[i] : i \in DOMAIN topic}

TypeOK ==
    /\ server \in {"up", "draining", "closing", "gone"}
    /\ \A s \in Slots :
          /\ requests[s].at \in {"free", "publish", "flight", "failed", "backoff", "published",
                                 "react", "wake", "done", "cut"}
          /\ requests[s].attempt \in 0 .. MaxAttempts
          /\ requests[s].status \in {0, 202, 204, 400, 401, 405, 413, 500, 503}
          /\ requests[s].event # Nil => Valid(Event(s))
    /\ \A key \in DOMAIN outgoing : \A m \in Range(outgoing[key]) :
          requests[m.slot].event # Nil /\ KeyOf(m.slot) = key
    /\ Published \union woken \subseteq Slots
    /\ faults \in 0 .. MayFail

(* Nothing reaches the queue but what a forge sent, about a repository on the *)
(* list, recent, and not kibitz's own doing; of comments, only those of       *)
(* somebody who may ask, who did ask, outside any code, for what the event    *)
(* says - in every text whose fences the code reads as the forge does.        *)
(* Verification, three normalisers and the policy together.                   *)
OnlyWhatWasAsked ==
    \A s \in Published :
        LET r == Payload(s)
            e == Event(s)
        IN  /\ r.genuine
            /\ r.writer \notin Config.ourselves
            /\ \E i \in DOMAIN Config.policy.allowedRepos :
                  Matches(Config.policy.allowedRepos[i], r.change[2])
            /\ r.old <= Config.policy.maxEventAge
            /\ e.kind \in CommentKinds =>
                  /\ <<r.platform, r.writer>> \in Config.mayAsk
                  /\ FencesReadAlike(e.comment[1].text) =>
                        /\ r.asks # "nothing"
                        /\ e.command = (IF r.asks = "question" THEN Nil ELSE <<r.asks>>)

(* Two events have one key exactly when they are about one pull request or    *)
(* one issue, whichever event of the platform they came from, though names    *)
(* nest and issues share numbers with pull requests. The key is the queue's   *)
(* ordering key and the store's lock key.                                     *)
OneKeyPerChange ==
    \A s, t \in Published : KeyOf(s) = KeyOf(t) <=> Payload(s).change = Payload(t).change

(* A paused ordering key never costs a request more than the attempt that     *)
(* finds it paused: who is told to try again in vain lost every attempt to a  *)
(* failure of its own, ran out of time, or met a server that was stopped.     *)
OneFaultOneAttempt ==
    \A s \in Slots :
        requests[s].status = 503 /\ ~requests[s].expired /\ ~requests[s].closedOn
        => faults >= MaxAttempts

(* What a forge and a person are told is so: accepted means queued, skipped,  *)
(* rejected and refused mean not queued, and the eyes on a comment mean that  *)
(* its work is queued.                                                        *)
AnswersTrue ==
    \A s \in Slots :
        /\ requests[s].status = 202 => s \in Published
        /\ requests[s].status \notin {0, 202, 503} => s \notin Published
        /\ requests[s].reacted = "seen" => requests[s].status = 202
        /\ requests[s].reacted = "refused" => /\ s \notin Published
                                             /\ <<Payload(s).platform, Payload(s).writer>> \notin Config.mayAsk

(* Every delivery that is work is queued and announced to the waker, or the   *)
(* forge is told to send it again, unless the process ends before it could.   *)
AnsweredOrAnnounced ==
    \A s \in Slots :
        requests[s].at = "publish"
        ~> s \in woken \/ requests[s].status = 503 \/ requests[s].at = "cut"
=============================================================================
