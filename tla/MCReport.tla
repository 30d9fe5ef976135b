------------------------------ MODULE MCReport ------------------------------
(***************************************************************************)
(* Instances of Report for TLC.                                            *)
(***************************************************************************)
EXTENDS Report

(* 499.9, 500 and 500.9 milliseconds. *)
NearHalfASecond == {4999, 5000, 5009}

(* Enough samples for p95 and p99 to be below the maximum, and too few. *)
Histograms == [NearHalfASecond -> {0, 1, 19, 120}]

Collector(samples, success, reverted, nonceErrors, timeouts) ==
    [samples |-> samples, success |-> success, reverted |-> reverted,
     nonceErrors |-> nonceErrors, rpcErrors |-> 0, timeouts |-> timeouts]

(* Without a failure; with failures, and 60% successes; idle. *)
SomeCollectors ==
    {Collector(h, 7, 0, 0, 0) : h \in {g \in Histograms : g[5000] = 0}}
      \cup {Collector(h, 6, 1, 1, 2) : h \in {g \in Histograms : 1 \notin {g[4999], g[5009]}}}
      \cup {Collector([l \in NearHalfASecond |-> 0], 0, 0, 0, 0)}

OneOrTwo == {{1}, {1, 2}}

Assertion(metric, op, threshold, unit) ==
    [metric |-> metric, op |-> op, threshold |-> threshold, unit |-> unit]

SomeAssertions ==
    {<<Assertion("rpc_p95", "<=", 500, "ms"), Assertion("nonce_errors", "==", 0, "")>>,
     <<Assertion("rpc_p99", "<", 500, "ms"), Assertion("reverted_transactions", "<", 2, "")>>,
     <<Assertion("transaction_success_rate", ">", 60, "%"), Assertion("rpc_p50", "<=", 1, "s"),
       Assertion("rpc_errors", ">=", 0, "")>>,
     <<Assertion("rpc_p95", "<", 501, ""), Assertion("typo", "<", 1, "")>>}
=============================================================================
