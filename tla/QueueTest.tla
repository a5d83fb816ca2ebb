------------------------------ MODULE QueueTest ------------------------------
(***************************************************************************)
(* queueTest.c, the repository's own test of the queue, beside the callers *)
(* of Queue that make any calls: fills a queue of TEST_SIZE slots, empties *)
(* it, and compares.                                                       *)
(***************************************************************************)
EXTENDS Queue

CONSTANT payload_in     \* payload_in[k], the payloads of the test, one for each slot

ASSUME TestAssumption == payload_in \in [Slots -> Payload]

VARIABLES client,       \* "any" or "test"; it stays what it is
          at, n,        \* how far the test is
          payload_out,  \* what it has popped
          errors        \* what it has reported

testVars == <<client, at, n, payload_out, errors>>

TEST_SIZE == maxSize

TestInit ==
    /\ Init
    /\ client \in {"any", "test"}
    /\ at = "empty" /\ n = 0
    /\ payload_out = [k \in Slots |-> NULL]
    /\ errors = {}

\* The test goes from one stage to another, and reports a failure if there is one.
Goto(stage, next)     == at = stage /\ at' = next
Report(failed, error) == errors' = IF failed THEN errors \cup {error} ELSE errors

\* The same call for every slot.
Each(stage, next) ==
    /\ at = stage
    /\ n' = (n + 1) % TEST_SIZE
    /\ at' = IF n + 1 < TEST_SIZE THEN stage ELSE next

ReportsEmpty(stage, next) ==
    /\ Goto(stage, next)
    /\ Report(~queue_is_empty \/ queue_is_full, "should report empty")
    /\ UNCHANGED <<vars, client, n, payload_out>>

PushAll ==
    /\ Each("push", "full")
    /\ queue_push(payload_in[n])
    /\ Report(ret'[2] = QUEUE_FAILURE, "push failed")
    /\ UNCHANGED <<client, payload_out>>

ReportsFull ==
    /\ Goto("full", "push_full")
    /\ Report(queue_is_empty \/ ~queue_is_full, "should report full")
    /\ UNCHANGED <<vars, client, n, payload_out>>

\* "!queue_push(...) == QUEUE_FAILURE" compares 0 or 1 to -1: nothing is reported
\* when the push does not fail.
PushOnFull ==
    /\ Goto("push_full", "pop")
    /\ queue_push(payload_in[0])
    /\ UNCHANGED <<client, n, payload_out, errors>>

PopAll ==
    /\ Each("pop", "compare")
    /\ queue_pop
    /\ payload_out' = [payload_out EXCEPT ![n] = ret'[2]]
    /\ Report(ret'[2] = NULL, "pop failed")
    /\ UNCHANGED client

Compare ==
    /\ Goto("compare", "empty_again")
    /\ Report(payload_in # payload_out, "push/pop mismatch")
    /\ UNCHANGED <<vars, client, n, payload_out>>

PopOnEmpty ==
    /\ Goto("pop_empty", "cleanup")
    /\ queue_pop
    /\ Report(ret'[2] # NULL, "pop did not return NULL")
    /\ UNCHANGED <<client, n, payload_out>>

Finish == Goto("cleanup", "done") /\ queue_cleanup /\ UNCHANGED <<client, n, payload_out, errors>>

Test ==
    \/ ReportsEmpty("empty", "push") \/ PushAll \/ ReportsFull \/ PushOnFull \/ PopAll
    \/ Compare \/ ReportsEmpty("empty_again", "pop_empty") \/ PopOnEmpty \/ Finish

TestNext ==
    \/ client = "any" /\ Next /\ UNCHANGED testVars
    \/ client = "test" /\ (Test \/ (Freed /\ UNCHANGED testVars))

TestSpec == TestInit /\ [][TestNext]_<<vars, testVars>>

-----------------------------------------------------------------------------

\* The test has nothing to report about the queue, from the first slot filled to the
\* last one emptied; and it comes back the way it went.
TestReportsNothing ==
    /\ errors = {}
    /\ at = "done" => payload_out = payload_in /\ ~live
=============================================================================
