------------------------------- MODULE CountJob -------------------------------
(***************************************************************************)
(* testRowCountCoprocessor() of VelasscoScan: one call of the coprocessor  *)
(* for each region of a table, in parallel, and one line printed for each  *)
(* answer, while other clients put rows and HBase splits regions.          *)
(*                                                                         *)
(* HBase's coprocessorService(), outside the repository, lists the first   *)
(* keys of the regions and starts a call for each; a call goes to the      *)
(* region that holds its key by then.  The answers are kept by the name of *)
(* the region.  It waits for the calls in key order and throws what the    *)
(* first one that failed has thrown.  What a call promises is module       *)
(* Counter.                                                                *)
(***************************************************************************)
EXTENDS Integers, FiniteSets, FiniteSetsExt

CONSTANTS LastKey,    \* row keys are 0..LastKey
          FirstKeys,  \* the regions' first keys in the beginning
          MaxPuts,    \* bound: rows put by others
          MaxSplits,  \* bound: splits of regions
          None

Keys == 0..LastKey

ASSUME CountJobAssumption ==
  /\ LastKey \in Nat /\ MaxPuts \in Nat /\ MaxSplits \in Nat
  /\ FirstKeys \subseteq Keys /\ 0 \in FirstKeys
  /\ None \notin Int

VARIABLES rows,      \* the table's rows
          starts,    \* the first keys of its regions now
          puts, splits,
          pc,        \* main: "connect", "list", "wait", "print", "end", "thrown"
          keys,      \* the keys that coprocessorService() has calls for
          call,      \* a key's call: "none", "called", "taken", "answered", "failed"
          target,    \* the region it went to
          value,     \* what the region has counted
          results,   \* the map from regions to counts, a set of pairs
          printed,   \* what has been printed of it
          before     \* history: the rows when the calls were started

table == <<rows, starts, puts, splits>>
job == <<pc, keys, call, target, value, results, printed, before>>
vars == <<table, job>>

\* The region that begins with key k, and the one that holds it.
Region(k) == [first |-> k, last |-> Min({s - 1 : s \in {t \in starts : t > k}} \cup {LastKey})]
Holder(k) == Region(Max({s \in starts : s <= k}))
Tally(region) == Cardinality(rows \cap region.first..region.last)

Init ==
  /\ rows \in SUBSET Keys /\ starts = FirstKeys /\ puts = 0 /\ splits = 0
  /\ pc = "connect" /\ keys = {}
  /\ call = [k \in Keys |-> "none"]
  /\ target = [k \in Keys |-> None]
  /\ value = [k \in Keys |-> None]
  /\ results = {} /\ printed = {} /\ before = {}

-------------------------------------------------------------------------------
(* main *)

Connect ==
  /\ pc = "connect" /\ pc' \in {"list", "thrown"}
  /\ UNCHANGED <<table, keys, call, target, value, results, printed, before>>

\* Mutant: a call for every row.
ListRegions_Rows ==
  /\ pc = "list" /\ pc' = "wait"
  /\ keys' = rows
  /\ call' = [k \in Keys |-> IF k \in rows THEN "called" ELSE "none"]
  /\ before' = rows
  /\ UNCHANGED <<table, target, value, results, printed>>

\* The row range is null to null: a call for every region.
ListRegions ==
  /\ pc = "list" /\ pc' = "wait"
  /\ keys' = starts
  /\ call' = [k \in Keys |-> IF k \in starts THEN "called" ELSE "none"]
  /\ before' = rows
  /\ UNCHANGED <<table, target, value, results, printed>>

\* Mutant: it goes on with the first answer.
AllAnswered_First ==
  /\ pc = "wait" /\ \E k \in keys : call[k] = "answered"
  /\ pc' = "print"
  /\ UNCHANGED <<table, keys, call, target, value, results, printed, before>>

AllAnswered ==
  /\ pc = "wait" /\ \A k \in keys : call[k] = "answered"
  /\ pc' = "print"
  /\ UNCHANGED <<table, keys, call, target, value, results, printed, before>>

\* Mutant: only the first call is looked at.
Rethrow_FirstKey ==
  /\ pc = "wait" /\ keys # {} /\ call[Min(keys)] = "failed"
  /\ pc' = "thrown"
  /\ UNCHANGED <<table, keys, call, target, value, results, printed, before>>

\* What the first failed call has thrown is thrown again.
Rethrow ==
  /\ pc = "wait"
  /\ \E k \in keys : /\ call[k] = "failed"
                     /\ \A j \in keys : j < k => call[j] = "answered"
  /\ pc' = "thrown"
  /\ UNCHANGED <<table, keys, call, target, value, results, printed, before>>

PrintResult ==
  /\ pc = "print"
  /\ \/ \E r \in results \ printed : printed' = printed \cup {r} /\ UNCHANGED pc
     \/ printed = results /\ pc' = "end" /\ UNCHANGED printed
  /\ UNCHANGED <<table, keys, call, target, value, results, before>>

-------------------------------------------------------------------------------
(* Batch.Call.call() for one region, in a thread of its own *)

\* Mutant: every region counts the whole table.
Take_Table(k) ==
  /\ pc = "wait" /\ call[k] = "called"
  /\ call' = [call EXCEPT ![k] = "taken"]
  /\ target' = [target EXCEPT ![k] = Holder(k)]
  /\ value' = [value EXCEPT ![k] = Cardinality(rows)]
  /\ UNCHANGED <<table, pc, keys, results, printed, before>>

\* The region's getRowCount() is at the moment of its count.
Take(k) ==
  /\ pc = "wait" /\ call[k] = "called"
  /\ call' = [call EXCEPT ![k] = "taken"]
  /\ target' = [target EXCEPT ![k] = Holder(k)]
  /\ value' = [value EXCEPT ![k] = Tally(Holder(k))]
  /\ UNCHANGED <<table, pc, keys, results, printed, before>>

\* Mutant: the map is from counts to counts.
Answered_ByCount(k) ==
  /\ pc = "wait" /\ call[k] = "taken"
  /\ call' = [call EXCEPT ![k] = "answered"]
  /\ results' = results \cup {<<value[k], value[k]>>}
  /\ UNCHANGED <<table, pc, keys, target, value, printed, before>>

\* The response has a count; it is kept for the region.
Answered(k) ==
  /\ pc = "wait" /\ call[k] = "taken"
  /\ call' = [call EXCEPT ![k] = "answered"]
  /\ results' = results \cup {<<target[k], value[k]>>}
  /\ UNCHANGED <<table, pc, keys, target, value, printed, before>>

\* Mutant: no response counts as none.
NoResponse_Zero(k) ==
  /\ pc = "wait" /\ call[k] \in {"called", "taken"}
  /\ call' = [call EXCEPT ![k] = "answered"]
  /\ target' = [target EXCEPT ![k] = Holder(k)]
  /\ value' = [value EXCEPT ![k] = 0]
  /\ results' = results \cup {<<Holder(k), 0>>}
  /\ UNCHANGED <<table, pc, keys, printed, before>>

\* The call or the handler fails: the response is null, and hasCount() of it
\* throws.
NoResponse(k) ==
  /\ pc = "wait" /\ call[k] \in {"called", "taken"}
  /\ call' = [call EXCEPT ![k] = "failed"]
  /\ UNCHANGED <<table, pc, keys, target, value, results, printed, before>>

-------------------------------------------------------------------------------
PutRow ==
  /\ puts < MaxPuts /\ puts' = puts + 1
  /\ \E k \in Keys \ rows : rows' = rows \cup {k}
  /\ UNCHANGED <<starts, splits, job>>

SplitRegion ==
  /\ splits < MaxSplits /\ splits' = splits + 1
  /\ \E k \in Keys \ starts : starts' = starts \cup {k}
  /\ UNCHANGED <<rows, puts, job>>

CallStep(k) == Take(k) \/ Answered(k) \/ NoResponse(k)
MainStep == Connect \/ ListRegions \/ AllAnswered \/ Rethrow \/ PrintResult

Done == pc \in {"end", "thrown"} /\ UNCHANGED vars

Next == MainStep \/ (\E k \in Keys : CallStep(k)) \/ PutRow \/ SplitRegion \/ Done

\* Every call ends, as HBase's client gives up after its retries.
Spec ==
  /\ Init /\ [][Next]_vars
  /\ WF_vars(MainStep) /\ \A k \in Keys : WF_vars(CallStep(k))

-------------------------------------------------------------------------------
\* The state has its type; a key that has been called stays a region's first.
TypeOK ==
  /\ rows \subseteq Keys /\ before \subseteq rows /\ keys \subseteq starts
  /\ starts \subseteq Keys
  /\ pc \in {"connect", "list", "wait", "print", "end", "thrown"}
  /\ call \in [Keys -> {"none", "called", "taken", "answered", "failed"}]
  /\ \A k \in Keys : call[k] \in {"taken", "answered"} => value[k] \in Nat
  /\ \A r \in results : r[1].first \in keys
  /\ printed \subseteq results

\* The sum of the counts printed: r[2] pairs for each line r.
Sum == Cardinality(UNION {{r} \X (1..r[2]) : r \in printed})

\* A job that ends normally has printed one line for every region it called,
\* also where two regions have the same count.
OneLinePerRegion == pc = "end" => Cardinality(printed) = Cardinality(keys)

\* The lines' sum is not a count of one moment, but it lies between the rows
\* there were when the calls were started and those there are at the end.
\* With a region that split in between it may fall short: nobody calls the
\* new half.
SumBracketed ==
  pc = "end" => /\ Sum <= Cardinality(rows)
                /\ starts = keys => Sum >= Cardinality(before)

\* Each call does what module Counter promises: a count of one moment or a
\* failure, never a count that was not taken; and it ends.
Now(k) == Tally(Holder(k))
Answer(k) == IF call[k] = "answered" THEN value[k] ELSE None
Phase(k) == IF call[k] = "answered" THEN "answered"
            ELSE IF pc = "thrown" THEN "failed"
            ELSE IF call[k] = "none" THEN "called" ELSE call[k]
Call(k) ==
  INSTANCE Counter
    WITH total <- Now(k), phase <- Phase(k), value <- value[k], answer <- Answer(k)
CallsCount ==
  /\ \A k \in FirstKeys : Call(k)!Init
  /\ [][\A k \in FirstKeys : Call(k)!Next \/ UNCHANGED Call(k)!cvars]_vars
  /\ \A k \in FirstKeys : <>(call[k] \in {"answered", "failed"} \/ pc = "thrown")

\* The job ends, printed or with an exception.
JobEnds == <>(pc \in {"end", "thrown"})
===============================================================================
