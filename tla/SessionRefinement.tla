-------------------------- MODULE SessionRefinement --------------------------
(***************************************************************************)
(* RQLSession implements SessionContract.  R runs one call at a time, so a *)
(* caller sees the settings only between calls: while a call runs the      *)
(* contract still holds the values the call found.                         *)
(***************************************************************************)
EXTENDS RQLSession

Visible(found, now) == IF call.status = "running" THEN found ELSE now

\* What the contract knows of a call; the rest of its locals are its own.
Interface ==
    [op |-> call.op, d |-> call.d, s |-> call.s, name |-> call.name,
     lag |-> call.lag, began |-> call.entry.today, status |-> call.status]

Contract ==
    INSTANCE SessionContract WITH
        Calls <- [op : Ops, d : Dates \X Dates, s : Dates \X Dates,
                  name : Names, lag : Offsets, began : Dates,
                  status : {"idle", "running", "returned", "threw"}],
        evalDate <- Visible(call.entry.evalDate, evalDate),
        settleDate <- Visible(call.entry.settleDate, settleDate),
        calendar <- Visible(call.entry.calendar, calendar),
        fixingDays <- Visible(call.entry.fixingDays, fixingDays),
        call <- Interface

\* Every call, returned or thrown out of at any of its steps, ends in one
\* whole outcome of the contract, the one its engine and arguments allow.
ImplementsContract == Contract!Spec
=============================================================================
