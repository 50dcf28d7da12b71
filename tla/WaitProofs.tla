------------------------------ MODULE WaitProofs ------------------------------
(***************************************************************************)
(* Proofs about WaitNotify, for every set of values and every number of    *)
(* calls. Sync says where both threads can be relative to `locked`; Data   *)
(* follows an argument of notify until wait returns it.                    *)
(***************************************************************************)
EXTENDS WaitNotify, TLAPS

(* A wait was released and has not returned. *)
Released == wpc \in {"wait", "get"} /\ ~locked

Sync ==
    /\ locked => wpc \in {"wait", "get"}
    /\ npc \in {"set", "unlock"} => locked
    /\ wpc = "wait" => (signalled <=> ~locked)
    /\ wpc = "get" /\ locked => spurious
    /\ fault = "throw" => spurious

(* What a wait returns that a notify with the argument a released. *)
Expected(a) == CASE a \in {NoArg, Falsy} -> "true"
                 [] a = Empty -> "throws"
                 [] OTHER -> a

Data ==
    /\ npc = "set" => arg \notin {NoArg, Falsy}
    /\ npc = "unlock" => Result(data) = Expected(arg)
    /\ npc /= "unlock" /\ ~Released => data = "null"
    /\ Released => Result(data) = Expected(granted[Len(granted)])
    /\ Len(granted) = IF Released THEN Len(returned) + 1 ELSE Len(returned)
    /\ \A i \in 1 .. Len(returned) : returned[i] = Expected(granted[i])

IInv == TypeOK /\ Sync /\ Data
-----------------------------------------------------------------------------
(* What arrives of an argument: itself, or what stands for no data. *)
LEMMA Conversions ==
    /\ Result("null") = "true"
    /\ \A a \in Args : a \notin {NoArg, Falsy} => Result(a) = Expected(a)
    /\ \A a \in {NoArg, Falsy} : Expected(a) = "true"
    /\ \A d \in Values \cup {"null", Empty} :
           Result(d) \in Values \cup {"true", "false", "throws"}
  BY WaitAssumption
     DEF Result, Expected, Args, NoArg, Falsy, Empty

LEMMA InitInv == Init => IInv
<1> SUFFICES ASSUME Init PROVE IInv
  OBVIOUS
<1>1. NoArg \in Args
  BY DEF Args
<1>2. TypeOK
  <2>1. locked \in BOOLEAN /\ signalled \in BOOLEAN /\ spurious \in BOOLEAN
        /\ stopped \in BOOLEAN
    BY Zenon DEF Init
  <2>2. /\ <<>> \in Seq(Args)
        /\ <<>> \in Seq(Values \cup {"true", "false", "throws"})
    OBVIOUS
  <2> QED BY <1>1, <2>1, <2>2, WaitAssumption DEF Init, TypeOK
<1>3. Sync
  BY DEF Init, Sync
<1>4. Data
  BY DEF Init, Data, Released
<1> QED BY <1>2, <1>3, <1>4 DEF IInv

LEMMA NextType == IInv /\ [Next]_vars => TypeOK'
<1> SUFFICES ASSUME TypeOK, Sync, Data, [Next]_vars PROVE TypeOK'
  BY DEF IInv
<1> USE WaitAssumption DEF TypeOK, vars, waiter, worker, main, Crash
<1>1. CASE WaitCall BY <1>1 DEF WaitCall
<1>2. CASE WaitSend \/ Lock \/ Wake \/ WakeSpuriously \/ End
  BY <1>2 DEF WaitSend, Lock, Wake, WakeSpuriously, End
<1>3. CASE GetData
  <2>1. data \in Values \cup {"null", Empty}
    OBVIOUS
  <2>2. Result(data) \in Values \cup {"true", "false", "throws"}
    BY ONLY <2>1, Conversions
  <2>3. returned' \in Seq(Values \cup {"true", "false", "throws"})
    BY <1>3, <2>2 DEF GetData
  <2>4. /\ UNCHANGED <<locked, signalled, spurious, stopped>>
        /\ data' \in {data, "null"} /\ wpc' \in {"js", "get"}
        /\ fault' \in {fault, "throw"}
        /\ UNCHANGED <<npc, arg, waits, heard, calls, granted>>
    BY <1>3 DEF GetData
  <2> QED BY <2>1, <2>3, <2>4
<1>4. CASE Hear BY <1>4 DEF Hear
<1>5. CASE NotifyCall BY <1>5 DEF NotifyCall
<1>6. CASE NotifyRead \/ Stop BY <1>6 DEF NotifyRead, Stop
<1>7. CASE NotifySet
  <2>1. npc = "set" => arg \in Values \cup {Empty}
    BY DEF Data, Args
  <2>2. npc = "set" /\ UNCHANGED <<locked, signalled, stopped, spurious>>
    BY <1>7 DEF NotifySet
  <2>3. data' \in Values \cup {"null", Empty}
    BY <1>7, <2>1, <2>2 DEF NotifySet
  <2> QED BY <1>7, <2>2, <2>3 DEF NotifySet
<1>8. CASE NotifyUnlock
  <2>1. locked' \in BOOLEAN /\ signalled' \in BOOLEAN
    BY <1>8, Zenon DEF NotifyUnlock
  <2>2. /\ UNCHANGED <<spurious, stopped, data, wpc, waits, returned>>
        /\ npc' \in {"none", "unlock"}
        /\ UNCHANGED <<arg, heard, calls>>
        /\ granted' \in Seq(Args) /\ fault' \in {fault, "throw"}
    BY <1>8 DEF NotifyUnlock
  <2> QED BY <2>1, <2>2
<1>9. CASE UNCHANGED vars BY <1>9
<1> QED BY <1>1, <1>2, <1>3, <1>4, <1>5, <1>6, <1>7, <1>8, <1>9 DEF Next

LEMMA NextSync == TypeOK /\ Sync /\ [Next]_vars => Sync'
<1> SUFFICES ASSUME TypeOK, Sync, [Next]_vars PROVE Sync'
  OBVIOUS
<1> USE DEF TypeOK, Sync, vars, waiter, worker, main, Crash
<1>1. CASE WaitCall \/ WaitSend \/ Lock \/ End
  BY <1>1 DEF WaitCall, WaitSend, Lock, End
<1>2. CASE Wake \/ WakeSpuriously \/ GetData
  BY <1>2 DEF Wake, WakeSpuriously, GetData
<1>3. CASE Hear \/ NotifyCall \/ NotifyRead \/ Stop
  BY <1>3 DEF Hear, NotifyCall, NotifyRead, Stop
<1>4. CASE NotifySet \/ NotifyUnlock
  BY <1>4 DEF NotifySet, NotifyUnlock
<1>5. CASE UNCHANGED vars BY <1>5
<1> QED BY <1>1, <1>2, <1>3, <1>4, <1>5 DEF Next

LEMMA NextData == IInv /\ [Next]_vars => Data'
<1> SUFFICES ASSUME IInv, [Next]_vars PROVE Data'
  OBVIOUS
<1> USE Conversions DEF IInv, TypeOK, Sync, Data, Released,
                        vars, waiter, worker, main, Crash
<1>1. CASE WaitCall \/ WaitSend \/ Lock \/ End
  BY <1>1 DEF WaitCall, WaitSend, Lock, End
<1>2. CASE Wake \/ WakeSpuriously
  BY <1>2 DEF Wake, WakeSpuriously
<1>3. CASE GetData BY <1>3 DEF GetData
<1>4. CASE Hear \/ NotifyCall \/ Stop
  BY <1>4 DEF Hear, NotifyCall, Stop
<1>5. CASE NotifyRead BY <1>5 DEF NotifyRead
<1>6. CASE NotifySet BY <1>6 DEF NotifySet
<1>7. CASE NotifyUnlock BY <1>7 DEF NotifyUnlock
<1>8. CASE UNCHANGED vars BY <1>8
<1> QED BY <1>1, <1>2, <1>3, <1>4, <1>5, <1>6, <1>7, <1>8 DEF Next
-----------------------------------------------------------------------------
LEMMA Invariance == Spec => []IInv
<1>1. Init => IInv
  BY InitInv
<1>2. IInv /\ [Next]_vars => IInv'
  BY NextType, NextSync, NextData DEF IInv
<1> QED BY <1>1, <1>2, PTL DEF Spec

(* Every variable of WaitThread, j_wait and j_notify keeps its type. *)
THEOREM WaitTypes == Spec => []TypeOK
  BY Invariance, PTL DEF IInv

(* Every wait returns what the notify that released it carried. *)
THEOREM WaitReturns == Spec => []WaitReturnsItsNotify
<1>1. IInv => WaitReturnsItsNotify
  BY DEF IInv, TypeOK, Data, WaitReturnsItsNotify, Expected
<1> QED BY <1>1, Invariance, PTL

(* No release is lost between unlock and uv_cond_wait. *)
THEOREM ReleaseKept == Spec => []NoLostRelease
<1>1. IInv => NoLostRelease
  BY DEF IInv, Sync, NoLostRelease
<1> QED BY <1>1, Invariance, PTL

(* The exceptions of WaitThread need a spurious wakeup. *)
THEOREM ThrowsNeedSpurious == Spec => []ThrowsOnlyIfSpurious
<1>1. IInv => ThrowsOnlyIfSpurious
  BY DEF IInv, Sync, ThrowsOnlyIfSpurious
<1> QED BY <1>1, Invariance, PTL

(* A notify that found the worker waiting does not outlive the worker. *)
THEOREM NotifyInTime == Spec => []NotifyHoldsWorker
<1>1. IInv => NotifyHoldsWorker
  BY DEF IInv, Sync, NotifyHoldsWorker
<1> QED BY <1>1, Invariance, PTL
=============================================================================
