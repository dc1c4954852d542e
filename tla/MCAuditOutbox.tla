--------------------------- MODULE MCAuditOutbox ---------------------------
(* Two events of high priority and one of low, and configurations for each  *)
(* thing that can happen to a row: two dispatchers with crashes, leases,    *)
(* retries and several sinks; two janitors with the clocks, the cap and the *)
(* orphans.                                                                 *)
(* Two candidates are not valid and no behaviour starts from them.          *)
EXTENDS AuditOutbox

CONSTANTS e1, e2, e3, w1, w2

Plain == [events |-> {e1, e2}, dispatchers |-> {w1, w2}, janitors |-> {w1, w2},
          maxAttempts |-> 2, lease |-> 1, batch |-> 2, sinks |-> 1, closed |-> FALSE,
          outboxMaxAge |-> 0, deadLetterTTL |-> 0, retention |-> 0, maxRows |-> 0, faults |-> 0]

MCEvent == {e1, e2, e3}
MCBestEffort == {e2}
MCWorker == {w1, w2}

Dispatching == {
  [Plain EXCEPT !.events = {e1}, !.maxAttempts = 3, !.faults = 2],
  [Plain EXCEPT !.maxAttempts = 1],
  [Plain EXCEPT !.maxAttempts = 1, !.batch = 1],
  [Plain EXCEPT !.maxAttempts = 1, !.dispatchers = {w1}, !.faults = 1],
  [Plain EXCEPT !.events = {e1}, !.sinks = 2, !.faults = 1],
  [Plain EXCEPT !.events = {e1}, !.sinks = 2, !.faults = 1, !.closed = TRUE]}

Sweeping == [Plain EXCEPT !.dispatchers = {w1}, !.maxAttempts = 1]

Cleaning == {
  [Sweeping EXCEPT !.events = MCEvent, !.dispatchers = {}, !.janitors = {w1}, !.maxRows = 1, !.outboxMaxAge = 1,
                    !.faults = 1],
  [Sweeping EXCEPT !.dispatchers = {}, !.janitors = {w1}, !.outboxMaxAge = 1, !.deadLetterTTL = 1,
                    !.retention = 3, !.faults = 1],
  [Sweeping EXCEPT !.batch = 1, !.maxRows = 1],
  [Sweeping EXCEPT !.batch = 1, !.janitors = {w1}, !.maxRows = 1, !.faults = 1],
  [Sweeping EXCEPT !.events = {e1}, !.outboxMaxAge = 2, !.deadLetterTTL = 1, !.retention = 3, !.faults = 1],
  [Sweeping EXCEPT !.events = {e1}, !.outboxMaxAge = 1, !.deadLetterTTL = 2, !.retention = 2],
  [Sweeping EXCEPT !.retention = 1]}

Configurations == Dispatching \union Cleaning

=============================================================================
