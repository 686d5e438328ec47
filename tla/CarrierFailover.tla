----------------------------- MODULE CarrierFailover ----------------------------
(***************************************************************************)
(* The downloads of profiles by the SM-DP+ manager, the carriers they are  *)
(* ordered from, and the checks of the carriers' health.                   *)
(*                                                                         *)
(* One lock, carriersMutex, guards the carriers.  All but one of those who *)
(* take it give it up before they wait for anything, and are one step      *)
(* here; handleFailover keeps it, for reading, while it calls carrier      *)
(* after carrier, and each of these calls ends by taking it for writing.   *)
(*                                                                         *)
(* A carrier is not there, or has a health and the counts of its requests; *)
(* one that is not active is never asked for anything and stands for none. *)
(* The scores a selection compares are left out: any healthy carrier may   *)
(* be the best.  A restart stands for the crashes of the connector too:    *)
(* maps written while they are read, and the client a check looks up of a  *)
(* carrier removed since its round began, which is nil.                    *)
(***************************************************************************)
EXTENDS Naturals

CONSTANTS Carriers, Downloads,
          MaxRetries,            \* how often a call is repeated
          FailureLimit,          \* failures of a carrier that is not just degraded
          MaxDownloads           \* bound on the downloads begun

ASSUME MaxRetriesNat == MaxRetries \in Nat
ASSUME FailureLimitNat == FailureLimit \in Nat
ASSUME MaxDownloadsNat == MaxDownloads \in Nat

VARIABLES carrier,               \* each carrier and its metrics
          download,              \* where each download is
          check,                 \* the check of each carrier
          enableFailover,        \* the configuration
          begun                  \* how many downloads, for the bound

failoverVars == <<carrier, download, check, enableFailover, begun>>

Gone    == [health |-> "gone", total |-> 0, failed |-> 0]
Added   == [health |-> "unknown", total |-> 0, failed |-> 0]
Rows    == [health : {"unknown", "healthy", "degraded", "unhealthy"}, total : Nat, failed : Nat]

NoDownload == [at |-> "idle"]
Asking(c, attempt, seen) ==
  [at |-> "client", from |-> c, attempt |-> attempt, failed |-> FALSE, seen |-> seen]

(* seen: the carriers a failover has passed, none before it begins *)
DownloadStates ==
  {NoDownload}
  \cup [at : {"client", "call", "report"}, from : Carriers, attempt : 0..MaxRetries,
        failed : BOOLEAN, seen : SUBSET Carriers]
  \cup [at : {"failover"}, from : Carriers]
  \cup [at : {"choose"}, seen : SUBSET Carriers]

(* A check holds on to the carrier it was begun with, which may have been    *)
(* replaced since: then `of` has the counts of that one.                     *)
Current   == [health |-> "current"]
NoCheck   == [at |-> "none"]
CheckStates ==
  {NoCheck}
  \cup [at : {"ask"}, of : {Current} \cup {r \in Rows : r.health = "unknown"}]
  \cup [at : {"update"}, status : {"healthy", "degraded", "unhealthy"}]

FailoverTypeOK ==
  /\ carrier \in [Carriers -> {Gone} \cup Rows]
  /\ download \in [Downloads -> DownloadStates]
  /\ check \in [Carriers -> CheckStates]
  /\ enableFailover \in BOOLEAN
  /\ begun \in 0..MaxDownloads

FailoverInit ==
  /\ carrier = [c \in Carriers |-> Added]
  /\ download = [d \in Downloads |-> NoDownload]
  /\ check = [c \in Carriers |-> NoCheck]
  /\ enableFailover \in BOOLEAN
  /\ begun = 0

There(c) == carrier[c] # Gone

Standing(d, stage) == download[d].at = stage

Go(d, state) == download' = [download EXCEPT ![d] = state]

(* The goroutines in handleFailover, past its RLock *)
InFailover ==
  {d \in Downloads : \/ Standing(d, "choose")
                     \/ download[d].at \in {"client", "call", "report"} /\ download[d].seen # {}}

(* Who has come to a Lock while it is held for reading waits in it, and      *)
(* whoever comes to an RLock then waits behind.                              *)
Writable == InFailover = {}
Readable ==
  \/ Writable
  \/ /\ \A d \in Downloads : ~Standing(d, "report")
     /\ \A c \in Carriers : check[c].at # "update"

-----------------------------------------------------------------------------
Usable(c) == carrier[c].health = "healthy"

(* DownloadProfile up to its first attempt.  Without a usable carrier it     *)
(* ends there, and no carrier is tried.                                      *)
SelectCarrier(d, c) ==
  /\ Standing(d, "idle")
  /\ begun < MaxDownloads
  /\ Readable
  /\ Usable(c)
  /\ Go(d, Asking(c, 0, {}))
  /\ begun' = begun + 1
  /\ UNCHANGED <<carrier, check, enableFailover>>

(* What follows the attempts on a carrier: the next one, in a failover; else *)
(* a failover, if it is configured.                                          *)
AfterCarrier(d) ==
  IF d \in InFailover THEN [at |-> "choose", seen |-> download[d].seen]
  ELSE IF enableFailover THEN [at |-> "failover", from |-> download[d].from]
  ELSE NoDownload

(* downloadWithRetry: the client, ... *)
GetClient(d) ==
  /\ Standing(d, "client")
  /\ Go(d, IF There(download[d].from) THEN [download[d] EXCEPT !.at = "call"]
                                      ELSE AfterCarrier(d))
  /\ UNCHANGED <<carrier, check, enableFailover, begun>>

(* ... the call, ... *)
CarrierAnswers(d, failed) ==
  /\ Standing(d, "call")
  /\ Go(d, [download[d] EXCEPT !.at = "report", !.failed = failed])
  /\ UNCHANGED <<carrier, check, enableFailover, begun>>

Reported(row, failed) ==
  [row EXCEPT !.total = @ + 1, !.failed = IF failed THEN @ + 1 ELSE @]

(* mutant: the attempts are not counted *)
RetryForever(d) ==
  IF ~download[d].failed THEN NoDownload
  ELSE Asking(download[d].from, download[d].attempt, download[d].seen)

AfterCall(d) ==
  IF ~download[d].failed THEN NoDownload
  ELSE IF download[d].attempt < MaxRetries
    THEN Asking(download[d].from, download[d].attempt + 1, download[d].seen)
    ELSE AfterCarrier(d)

(* ... updateCarrierMetrics, and what follows from the answer *)
UpdateCarrierMetrics(d) ==
  LET c == download[d].from IN
  /\ Standing(d, "report")
  /\ Writable
  /\ carrier' = IF There(c) THEN [carrier EXCEPT ![c] = Reported(@, download[d].failed)]
                            ELSE carrier
  /\ Go(d, AfterCall(d))
  /\ UNCHANGED <<check, enableFailover, begun>>

(* handleFailover: the lock, another carrier, or none left *)
BeginFailover(d) ==
  /\ Standing(d, "failover")
  /\ Readable
  /\ Go(d, [at |-> "choose", seen |-> {download[d].from}])
  /\ UNCHANGED <<carrier, check, enableFailover, begun>>

TryOther(d, c) ==
  /\ Standing(d, "choose")
  /\ c \notin download[d].seen
  /\ Usable(c)
  /\ Go(d, Asking(c, 0, download[d].seen \cup {c}))
  /\ UNCHANGED <<carrier, check, enableFailover, begun>>

Exhaust(d) ==
  /\ Standing(d, "choose")
  /\ \A c \in Carriers : Usable(c) => c \in download[d].seen
  /\ Go(d, NoDownload)
  /\ UNCHANGED <<carrier, check, enableFailover, begun>>

-----------------------------------------------------------------------------
(* A check under way keeps the carrier it was begun with. *)
KeepChecked(c) ==
  check' = [check EXCEPT ![c] = IF @.at = "ask" /\ @.of = Current
                                  THEN [@ EXCEPT !.of = [carrier[c] EXCEPT !.health = "unknown"]]
                                  ELSE @]

(* AddCarrier also replaces a carrier of the same id. *)
AddCarrier(c) ==
  /\ Writable
  /\ carrier' = [carrier EXCEPT ![c] = Added]
  /\ IF There(c) THEN KeepChecked(c) ELSE UNCHANGED check
  /\ UNCHANGED <<download, enableFailover, begun>>

RemoveCarrier(c) ==
  /\ Writable
  /\ There(c)
  /\ carrier' = [carrier EXCEPT ![c] = Gone]
  /\ KeepChecked(c)
  /\ UNCHANGED <<download, enableFailover, begun>>

-----------------------------------------------------------------------------
(* checkAllCarriers: a round begins when the one before has ended. *)
CheckAllCarriers ==
  /\ \A c \in Carriers : check[c] = NoCheck
  /\ \E c \in Carriers : There(c)
  /\ check' = [c \in Carriers |-> IF There(c) THEN [at |-> "ask", of |-> Current] ELSE NoCheck]
  /\ UNCHANGED <<carrier, download, enableFailover, begun>>

(* mutant: the error rate does not count *)
EvaluateAnswer(row, failed, slow) ==
  IF failed THEN IF row.failed > FailureLimit THEN "unhealthy" ELSE "degraded"
  ELSE IF slow THEN "degraded" ELSE "healthy"

(* evaluateHealth: failures are all there have ever been, and more than one  *)
(* in ten of the requests makes a carrier degraded, whatever it answers.     *)
Poor(row) == 10 * row.failed > row.total

EvaluateHealth(row, failed, slow) ==
  IF failed THEN IF row.failed > FailureLimit THEN "unhealthy" ELSE "degraded"
  ELSE IF slow \/ Poor(row) THEN "degraded" ELSE "healthy"

CheckedRow(c) == IF check[c].of = Current THEN carrier[c] ELSE check[c].of

CheckCarrier(c, failed, slow) ==
  /\ check[c].at = "ask"
  /\ check' = [check EXCEPT ![c] = [at |-> "update",
                                    status |-> EvaluateHealth(CheckedRow(c), failed, slow)]]
  /\ UNCHANGED <<carrier, download, enableFailover, begun>>

UpdateCarrierHealth(c) ==
  /\ check[c].at = "update"
  /\ Writable
  /\ carrier' = IF There(c) THEN [carrier EXCEPT ![c].health = check[c].status] ELSE carrier
  /\ check' = [check EXCEPT ![c] = NoCheck]
  /\ UNCHANGED <<download, enableFailover, begun>>

(* The connector is started again, with the carriers of its configuration. *)
StartAgain ==
  /\ carrier' = [c \in Carriers |-> Added]
  /\ download' = [d \in Downloads |-> NoDownload]
  /\ check' = [c \in Carriers |-> NoCheck]
  /\ UNCHANGED <<enableFailover, begun>>

FailoverNext ==
  \/ \E d \in Downloads :
       \/ \E c \in Carriers : SelectCarrier(d, c) \/ TryOther(d, c)
       \/ \E failed \in BOOLEAN : CarrierAnswers(d, failed)
       \/ GetClient(d) \/ UpdateCarrierMetrics(d) \/ BeginFailover(d) \/ Exhaust(d)
  \/ \E c \in Carriers :
       \/ AddCarrier(c) \/ RemoveCarrier(c)
       \/ UpdateCarrierHealth(c)
       \/ \E failed, slow \in BOOLEAN : CheckCarrier(c, failed, slow)
  \/ CheckAllCarriers
  \/ StartAgain

(* Calls time out and goroutines run; nothing restarts the connector, or     *)
(* asks for a download.                                                      *)
FailoverFairness ==
  \A d \in Downloads :
    /\ WF_failoverVars(GetClient(d))
    /\ WF_failoverVars(\E failed \in BOOLEAN : CarrierAnswers(d, failed))
    /\ WF_failoverVars(UpdateCarrierMetrics(d))
    /\ WF_failoverVars(BeginFailover(d))
    /\ WF_failoverVars(\E c \in Carriers : TryOther(d, c))
    /\ WF_failoverVars(Exhaust(d))

FailoverSpec == FailoverInit /\ [][FailoverNext]_failoverVars /\ FailoverFairness

-----------------------------------------------------------------------------
(* A carrier of which more than one request in ten has failed, and that is   *)
(* out of use: no download is at it, and no check about to call it healthy.  *)
Spent(c) ==
  /\ There(c)
  /\ carrier[c].health # "healthy"
  /\ Poor(carrier[c])
  /\ \A d \in Downloads : download[d].at \in {"client", "call", "report"} => download[d].from # c
  /\ check[c].at = "ask" => check[c].of = Current \/ Poor(check[c].of)
  /\ check[c].at = "update" => check[c].status # "healthy"

(* Such a carrier never comes back into use, however well it answers its     *)
(* checks: its rate only changes with requests, and only healthy carriers    *)
(* are sent any.  It takes a removal, a replacement or a restart.            *)
SpentStays == [][\A c \in Carriers : Spent(c) => Spent(c)' \/ carrier'[c] \in {Gone, Added}]_failoverVars

(* A download ends, with the profile or with an error, unless a failover has *)
(* the lock.                                                                 *)
DownloadsEnd == \A d \in Downloads : ~Standing(d, "idle") ~> Standing(d, "idle") \/ InFailover # {}

(* "handleFailover attempts to download profile using alternative carriers"  *)
(* (operations.go:96): a failover comes to an end.                           *)
FailoverEnds == \A d \in Downloads : d \in InFailover ~> d \notin InFailover
=============================================================================
