--------------------------- MODULE BatteryHistory ---------------------------
(***************************************************************************)
(* BatteryHistoryModel (batteryhistorymodel.cpp): the graph of the Battery *)
(* page.  Every change of device, duration or type asks UPower for the     *)
(* history again; answers come back later, in the order of the calls,      *)
(* because UPower handles them one by one.  A caller of the model's QML    *)
(* properties is free to set them at any time.                             *)
(***************************************************************************)
EXTENDS Integers, Sequences, SequencesExt

CONSTANTS
  Devices,      \* UPower object paths
  NoDevice,     \* the empty path
  Durations, DefaultDuration,
  Replies,      \* what UPower may answer
  MaxCalls      \* bound on the calls on their way together

Rate == "rate"
Charge == "charge"

(* Values are in tenths, so that converting one to int loses something.    *)
Entry == [time: Nat, value: Nat]
Query == [device: Devices \union {NoDevice}, duration: Durations, type: {Rate, Charge}]
Call == [device: Devices, duration: Durations, type: {Rate, Charge}]

ASSUME HistoryAssumption ==
  /\ NoDevice \notin Devices
  /\ DefaultDuration \in Durations
  /\ Replies \subseteq Seq(Entry)
  /\ MaxCalls \in Nat

(* UPower lists the newest entry first.                                    *)
ASSUME NewestFirst ==
  \A reply \in Replies : \A i, j \in DOMAIN reply : i < j => reply[i].time >= reply[j].time

VARIABLES
  query,        \* m_device, m_duration, m_type
  isComplete,   \* m_isComplete
  calls,        \* the queries of the calls without an answer, oldest first
  values,       \* m_values
  view,         \* m_values as the bindings of the page read them last
  answered      \* history: the query of the last answer, and whether it failed

vars == <<query, isComplete, calls, values, view, answered>>
-----------------------------------------------------------------------------
(* The answer without its empty entries, each in front of those before it. *)
(* In the variant the entries stay in the order of the answer.             *)
Appended(list, entry) == IF entry.value > 0 THEN Append(list, entry) ELSE list
Prepended(list, entry) == IF entry.value > 0 THEN <<entry>> \o list ELSE list
ValuesOf(reply) == FoldLeft(Prepended, <<>>, reply)

(* asPoints(): all but the last.                                           *)
Points(list) == IF list = <<>> THEN <<>> ELSE Front(list)

FirstDataPointTime(list) == IF list = <<>> THEN 0 ELSE Head(list).time
LastDataPointTime(list) == IF list = <<>> THEN 0 ELSE Last(list).time

(* largestValue(): int max takes the integral part of every larger value.  *)
Larger(max, entry) == IF entry.value > 10 * max THEN entry.value \div 10 ELSE max
LargestValue(list) == FoldLeft(Larger, 0, list)
-----------------------------------------------------------------------------
Init ==
  /\ query = [device |-> NoDevice, duration |-> DefaultDuration, type |-> Charge]
  /\ isComplete = FALSE
  /\ calls = <<>>
  /\ values = <<>> /\ view = <<>>
  /\ answered = [query |-> query, failed |-> FALSE]

(* load() with the members as they are after the step.  The variant asks   *)
(* even when there is no device.                                           *)
LoadAlways ==
  IF isComplete'
  THEN /\ Len(calls) < MaxCalls
       /\ calls' = Append(calls, query')
  ELSE UNCHANGED calls
Load ==
  IF isComplete' /\ query'.device # NoDevice
  THEN /\ Len(calls) < MaxCalls
       /\ calls' = Append(calls, query')
  ELSE UNCHANGED calls

SetDevice(device) ==
  /\ device # query.device
  /\ query' = [query EXCEPT !.device = device]
  /\ UNCHANGED isComplete
  /\ Load
  /\ UNCHANGED <<values, view, answered>>

(* The variant takes the new duration without asking again.                *)
SetDurationQuietly(duration) ==
  /\ duration # query.duration
  /\ query' = [query EXCEPT !.duration = duration]
  /\ UNCHANGED <<isComplete, calls, values, view, answered>>
SetDuration(duration) ==
  /\ duration # query.duration
  /\ query' = [query EXCEPT !.duration = duration]
  /\ UNCHANGED isComplete
  /\ Load
  /\ UNCHANGED <<values, view, answered>>

(* The variant treats an answer on its way as good enough.                 *)
SetTypeOnce(type) ==
  /\ type # query.type
  /\ query' = [query EXCEPT !.type = type]
  /\ UNCHANGED isComplete
  /\ IF calls = <<>> THEN Load ELSE UNCHANGED calls
  /\ UNCHANGED <<values, view, answered>>
SetType(type) ==
  /\ type # query.type
  /\ query' = [query EXCEPT !.type = type]
  /\ UNCHANGED isComplete
  /\ Load
  /\ UNCHANGED <<values, view, answered>>

ComponentComplete ==
  /\ ~isComplete
  /\ isComplete' = TRUE
  /\ UNCHANGED query
  /\ Load
  /\ UNCHANGED <<values, view, answered>>

Refresh ==
  /\ UNCHANGED <<query, isComplete>>
  /\ Load
  /\ UNCHANGED <<values, view, answered>>

(* The watcher of the oldest call reports finished.  The variant does not  *)
(* say that the data changed.                                              *)
FinishSilently(reply) ==
  /\ calls # <<>>
  /\ calls' = Tail(calls)
  /\ values' = ValuesOf(reply)
  /\ answered' = [query |-> Head(calls), failed |-> FALSE]
  /\ UNCHANGED <<query, isComplete, view>>
Finish(reply) ==
  /\ calls # <<>>
  /\ calls' = Tail(calls)
  /\ values' = ValuesOf(reply)
  /\ view' = values'
  /\ answered' = [query |-> Head(calls), failed |-> FALSE]
  /\ UNCHANGED <<query, isComplete>>

(* With an error the values are gone, but the page is not told.            *)
FinishWithError ==
  /\ calls # <<>>
  /\ calls' = Tail(calls)
  /\ values' = <<>>
  /\ answered' = [query |-> Head(calls), failed |-> TRUE]
  /\ UNCHANGED <<query, isComplete, view>>

Next ==
  \/ \E device \in Devices \union {NoDevice} : SetDevice(device)
  \/ \E duration \in Durations : SetDuration(duration)
  \/ \E type \in {Rate, Charge} : SetType(type)
  \/ ComponentComplete \/ Refresh
  \/ \E reply \in Replies : Finish(reply)
  \/ FinishWithError

Spec == Init /\ [][Next]_vars

(* UPower, or the bus in its stead, answers every call.                    *)
FairSpec == Spec /\ WF_vars(FinishWithError \/ \E reply \in Replies : Finish(reply))
-----------------------------------------------------------------------------
QuestionsOK ==
  /\ query \in Query
  /\ isComplete \in BOOLEAN
  /\ calls \in Seq(Call)
  /\ answered \in [query: Query, failed: BOOLEAN]

(* The types; in particular no call goes to the empty path.                *)
TypeOK ==
  /\ QuestionsOK
  /\ values \in Seq(Entry) /\ view \in Seq(Entry)

Asking == isComplete /\ query.device # NoDevice

(* The youngest call is for what the properties say, however often they    *)
(* changed while older calls were on their way.                            *)
YoungestCallIsCurrent ==
  Asking /\ calls # <<>> => Last(calls) = query

(* When every call has been answered the history is that of the device,    *)
(* duration and type set last, and not of an earlier question.             *)
SettledOnCurrent ==
  Asking /\ calls = <<>> => answered.query = query

(* Where the page shows other values than the model has, the last answer   *)
(* was an error and the model has none.                                    *)
StaleOnlyAfterError ==
  view # values => answered.failed /\ values = <<>>

(* The graph fits into its axes: every point lies between xMin and xMax    *)
(* and less than a unit above yMax, which the largest value reaches.       *)
PointsBetweenLimits ==
  /\ \A i \in DOMAIN Points(values) :
       /\ FirstDataPointTime(values) <= Points(values)[i].time
       /\ Points(values)[i].time <= LastDataPointTime(values)
  /\ \A i \in DOMAIN values : values[i].value < 10 * (LargestValue(values) + 1)
  /\ values # <<>> => \E i \in DOMAIN values : values[i].value >= 10 * LargestValue(values)

(* The inductive invariant behind it: the entries are in order.            *)
OldestFirst ==
  \A i, j \in DOMAIN values : i < j => values[i].time <= values[j].time

(* The graph is a view that keeps the promise of LatestAnswer: no answer   *)
(* takes the place of a younger one, and once the properties rest the      *)
(* history they ask for arrives, or the news that there is none.           *)
Latest == INSTANCE LatestAnswer WITH
  Questions <- Query,
  Nothing <- NoDevice,
  current <- IF Asking THEN query ELSE NoDevice,
  behind <- calls,
  shown <- answered.query

ImplementsLatestAnswer == Latest!Spec
=============================================================================
