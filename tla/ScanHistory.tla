---------------------------- MODULE ScanHistory -----------------------------
(***************************************************************************)
(* The verification phases with history variables: whether the target has  *)
(* refused a fetch by 429, 503 or a bot challenge, which link targets were *)
(* never seen, for that or any other reason, which probes came in under    *)
(* throttling, and which pages the probes of each type have met.           *)
(***************************************************************************)
EXTENDS ScanProperties

VARIABLES
  refused,
  unseen,
  throttled,   \* probes answered with the flag raised, the one that raised it included
  met          \* <<type, fingerprint>>: a real page that answered a probe of the type

hvars == <<vars, refused, unseen, throttled, met>>

BotChallenge(a) == a.status \in 200..399 /\ a.view.challenge

Refuses(a) == a.status \in {429, 503} \/ BotChallenge(a)

NeverSeen(a) == a.err \/ a.status \in {401, 403, 408, 429} \cup 500..599 \/ BotChallenge(a)

HInit == Init /\ refused = FALSE /\ unseen = {} /\ throttled = {} /\ met = {}

Heard(a) == refused' = (refused \/ Refuses(a))

(* The steps in which an answer to a verification fetch arrives.           *)
ProbeHears ==
  \E i \in Ranks, a \in Answers :
    /\ ProbeLost(i, a) \/ ProbeClassify(i, a)
    /\ Heard(a)
    /\ throttled' = IF rateLimited' THEN throttled \cup {i} ELSE throttled
    /\ met' = IF probePc'[i] # "lost" /\ classifyView(a.view, Plan[i]).real
              THEN met \cup {<<Plan[i], a.view.fp>>} ELSE met
    /\ UNCHANGED unseen

LinkHears ==
  \E t \in Linked, a \in Answers :
    /\ LinkAnswer(t, a)
    /\ Heard(a)
    /\ unseen' = IF NeverSeen(a) THEN unseen \cup {t} ELSE unseen
    /\ UNCHANGED <<throttled, met>>

OtherStep ==
  /\ \/ \E i \in Ranks : \/ LaunchSkip(i) \/ LaunchBlock(i) \/ LaunchGo(i) \/ ProbeRecheck(i)
                         \/ ProbeEcho(i) \/ ProbeStore(i)
     \/ ControlStep
     \/ \E t \in Linked : LinkGo(t)
     \/ \E phase \in {"probe", "link"} : Expire(phase)
     \/ WrapUp
     \/ Answered
  /\ UNCHANGED <<refused, unseen, throttled, met>>

HNext == ProbeHears \/ LinkHears \/ OtherStep

HSpec == HInit /\ [][HNext]_hvars

(* The flag is raised only by a refusal the target really gave; a plain    *)
(* 403, a dead link or a failed fetch does not switch the probes off.      *)
LimitIsReal == rateLimited => refused

(* Speculation stops: the probes that come in once the target throttles us *)
(* are at most those that were in flight when the flag went up, one per    *)
(* worker: a probe launched before it, or left waiting for a worker slot,  *)
(* fetches nothing more (handler_helpers.go 398-415).                      *)
SpeculationStops == Cardinality(throttled) <= ProbeWorkers

(* A page that answered the probes of two types is a document of neither,  *)
(* even when the second answer came long after the first was accepted, or  *)
(* was itself rejected; nor is the homepage.                               *)
NoCatchAllDocument ==
  response # NoResponse =>
    \A t \in ProbedDocs :
      /\ PageOf(t).fp # HomeFP
      /\ \A u \in Types \ {t} : <<u, PageOf(t).fp>> \notin met

(* An explicit link whose path and text both name its type is reported as  *)
(* a document, of unknown status, whenever its target could not be seen:   *)
(* neither a refusal nor a spent budget can turn it into a dead link or    *)
(* lose it in the wrap-up (the lone disclaimer excepted).                  *)
UnseenLinkSurvives ==
  response # NoResponse =>
    \A t \in unseen :
      /\ t \notin response.rejectedLinks
      /\ linkHits[t].floor = "medium" /\ t # Disclaimer =>
           t \in DOMAIN Docs /\ Docs[t].status = 0

=============================================================================
