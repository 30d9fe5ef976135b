---------------------------- MODULE MCRunCommand -----------------------------
(***************************************************************************)
(* Instances of RunCommand for TLC.                                        *)
(***************************************************************************)
EXTENDS RunCommand

NoLoad == [type |-> "constant", stages |-> <<>>, vus |-> 0, maxVUs |-> 0, wallets |-> 1]

Pair == [NoLoad EXCEPT !.vus = 2, !.wallets = 2]

Arrivals == [NoLoad EXCEPT !.type = "arrival-rate", !.maxVUs = 2, !.wallets = 2]

Ramp(stages, wallets) == [NoLoad EXCEPT !.type = "ramping", !.stages = stages,
                                        !.wallets = wallets]

(* As many wallets as constant VUs; a ramp that climbs to as many VUs as   *)
(* there are wallets; one up, further up, down and up again, with VUs left *)
(* at the end; arrivals that fill the semaphore.                           *)
LongLoads == {[NoLoad EXCEPT !.vus = 3, !.wallets = 3],
              Ramp(<<1, 3>>, 3), Ramp(<<1, 3, 1, 2>>, 2), Arrivals}

ShortLoads == {Pair, Ramp(<<2, 1>>, 2)}

EachLoad == LongLoads \cup ShortLoads \cup {Arrivals}

Setup(command, l, specs, fails) ==
    [command |-> command, load |-> l, specs |-> specs, fails |-> fails]

(* Every load without plugins; a few with a plugin that crashes and one    *)
(* that is steady, or one that is stuck; a bad second spec; every step     *)
(* of every command failing.                                               *)
EachSetup ==
    {Setup("run", l, <<>>, {}) : l \in LongLoads}
      \cup {Setup("worker", l, <<"crashing", "steady">>, {}) : l \in ShortLoads}
      \cup {Setup("run", Pair, <<"stuck">>, {}), Setup("run", Pair, <<"steady">>, {"assertions"}),
            Setup("run", Arrivals, <<"crashing">>, {}),
            Setup("run", Pair, <<"steady", "unstartable">>, {})}
      \cup UNION {{Setup(c, Pair, IF c = "controller" THEN <<>> ELSE <<"steady">>, {Steps[c][k]})
                     : k \in {j \in DOMAIN Steps[c] : Steps[c][j] \notin {"plugins", "engine", "assertions"}}}
                  : c \in DOMAIN Steps}
      \cup {Setup("controller", Pair, <<>>, {"assertions"})}
=============================================================================
