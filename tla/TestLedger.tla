----------------------------- MODULE TestLedger -----------------------------
(***************************************************************************)
(* What the run model promises, apart from output and names: a ledger of    *)
(* every execution of every test.  An execution is entered as running, is    *)
(* decided at most once, and when the ledger is closed whatever still runs   *)
(* is settled, alike for all tests of a package when it timed out.           *)
(***************************************************************************)
EXTENDS Integers, Sequences, SequencesExt

CONSTANTS Packages, Tests

VARIABLES ledger, closed

ledgerVars == <<ledger, closed>>

Decisions == {"passed", "failed", "skipped"}

LedgerInit ==
  /\ ledger = [p \in Packages |-> [t \in Tests |-> <<>>]]
  /\ closed = FALSE

Enter(p, t) ==
  /\ ~closed
  /\ ledger' = [ledger EXCEPT ![p][t] = Append(@, "running")]
  /\ UNCHANGED closed

\* The last execution is decided if it runs; a decision nobody announced is
\* entered as an execution of its own.
Decide(p, t, decision) ==
  LET entries == ledger[p][t]
  IN  /\ ~closed
      /\ ledger' = [ledger EXCEPT ![p][t] =
           IF entries # <<>> /\ entries[Len(entries)] = "running"
           THEN [entries EXCEPT ![Len(entries)] = decision]
           ELSE Append(entries, decision)]
      /\ UNCHANGED closed

\* Entries before and after closing: decisions stand, running entries are settled;
\* a test known only by half a line of output is entered on the way.
Settled(before, after, timedOut) ==
  /\ IF before = <<>> THEN Len(after) \in {0, 1} ELSE Len(after) = Len(before)
  /\ \A n \in 1..Len(after) :
       IF n \in 1..Len(before) /\ before[n] # "running" THEN after[n] = before[n]
       ELSE after[n] \in (IF timedOut THEN {"timeout"} ELSE {"error", "aborted"})

Close ==
  /\ ~closed
  /\ closed' = TRUE
  /\ \A p \in Packages : \E timedOut \in BOOLEAN : \A t \in Tests :
       Settled(ledger[p][t], ledger'[p][t], timedOut)

LedgerNext ==
  \/ \E p \in Packages, t \in Tests :
       Enter(p, t) \/ \E decision \in Decisions : Decide(p, t, decision)
  \/ Close

LedgerSpec == LedgerInit /\ [][LedgerNext]_ledgerVars
=============================================================================
