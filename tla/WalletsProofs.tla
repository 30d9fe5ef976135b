--------------------------- MODULE WalletsProofs ----------------------------
(***************************************************************************)
(* The invariants of WalletCommands, for any number of wallets and of      *)
(* commands, any passwords and either kind of node.                        *)
(***************************************************************************)
EXTENDS WalletCommands, SequenceTheorems, TLAPS

(* The value of a Content that is the keystore of some generate command.   *)
Saved(c) == \E g \in 1 .. generated : c.wallets = WalletsOf(g)

Whole(c) == c.form \in {"plain", "encrypted"}

(* A whole file is a keystore, and while one is written the file is torn.  *)
FileInv ==
    /\ generated \in Nat
    /\ \A c \in {file, writing} :
         /\ Whole(c) => Saved(c)
         /\ ~Whole(c) => c.wallets = <<>>
         /\ c.form = "plain" => c.password = NoPassword
    /\ writing # Nothing => Whole(writing) /\ file = Torn

Password == IF encrypted THEN opened ELSE NoPassword

(* Between the two reads of LoadAny; and what they amount to.              *)
ReadInv ==
    /\ (at = "loading" /\ ~rewritten) => Whole(file) /\ (encrypted <=> IsEncrypted)
    /\ (at = "dialling" /\ ~rewritten) =>
         /\ \E g \in 1 .. generated : keys = WalletsOf(g)
         /\ \A c \in {file, writing} : c.wallets = keys => c.password = Password

LEMMA WalletsOfInjective ==
    \A g, h : WalletsOf(g) = WalletsOf(h) => g = h
<1> SUFFICES ASSUME NEW g, NEW h, WalletsOf(g) = WalletsOf(h) PROVE g = h
  OBVIOUS
<1>1. 1 \in 1 .. Count
  BY CommandAssumption
<1>2. WalletsOf(g)[1].keystore = g /\ WalletsOf(h)[1].keystore = h
  BY <1>1 DEF WalletsOf
<1>3. QED
  BY <1>2

LEMMA WalletsOfNotEmpty == \A g : WalletsOf(g) # <<>>
<1> SUFFICES ASSUME NEW g PROVE WalletsOf(g) # <<>>
  OBVIOUS
<1>1. 1 \in 1 .. Count
  BY CommandAssumption
<1>2. DOMAIN WalletsOf(g) = 1 .. Count
  BY DEF WalletsOf
<1>3. DOMAIN <<>> = {}
  OBVIOUS
<1>4. QED
  BY <1>1, <1>2, <1>3

LEMMA FileInit == Init => FileInv /\ ReadInv
BY DEF Init, KeystoreInit, FundInit, FileInv, ReadInv, Whole, Saved, Absent, Torn, Nothing,
       Content

(* A keystore is written. *)
LEMMA SaveKeepsFile ==
    ASSUME FileInv, ReadInv,
           \/ \E password \in AllPasswords : Generate(password)
           \/ FinishGenerate \/ KillGenerate
    PROVE  FileInv' /\ ReadInv'
<1>1. CASE \E password \in AllPasswords : Generate(password)
  <2>1. PICK password \in AllPasswords : Generate(password)
    BY <1>1
  <2>2. PICK c : c = Envelope(WalletsOf(generated + 1), password)
    OBVIOUS
  <2>3. /\ c.wallets = WalletsOf(generated + 1) /\ Whole(c)
        /\ c.form = "plain" => c.password = NoPassword
    BY <2>2 DEF Envelope, Content, Whole
  <2>4. /\ writing = Nothing /\ file' = Torn /\ writing' = c
        /\ generated' = generated + 1
        /\ (~rewritten') => ~rewritten /\ at # "loading"
        /\ UNCHANGED <<at, keys, opened, encrypted>>
    <3>1. rewritten' = (rewritten \/ at = "loading")
      BY <2>1 DEF Generate, Touch
    <3>2. (~rewritten') => ~rewritten /\ at # "loading"
      BY <3>1, Zenon
    <3>3. QED
      BY <2>1, <2>2, <3>2 DEF Generate, BeginSave, fundVars
  <2>5. ~Whole(Torn) /\ Torn.wallets = <<>> /\ Torn.form # "plain"
    BY DEF Torn, Content, Whole
  <2>6. FileInv'
    BY <2>3, <2>4, <2>5 DEF FileInv, Whole, Saved
  <2>7. ReadInv'
    <3>1. SUFFICES ASSUME at = "dialling", ~rewritten
                   PROVE  /\ \E g \in 1 .. generated' : keys = WalletsOf(g)
                          /\ Torn.wallets # keys /\ c.wallets # keys
      BY <2>4 DEF ReadInv
    <3>2. PICK g \in 1 .. generated : keys = WalletsOf(g)
      BY <3>1 DEF ReadInv
    <3>3. g \in 1 .. generated' /\ g # generated + 1
      BY <2>4 DEF FileInv
    <3>4. QED
      BY <2>3, <2>5, <3>2, <3>3, WalletsOfInjective, WalletsOfNotEmpty
  <2>8. QED
    BY <2>6, <2>7
<1>2. CASE FinishGenerate \/ KillGenerate
  <2>1. /\ writing # Nothing /\ writing' = Nothing /\ file' \in {file, writing}
        /\ file' = file \/ ((~rewritten') => ~rewritten /\ at # "loading")
        /\ (~rewritten') => ~rewritten
        /\ UNCHANGED <<at, keys, opened, encrypted, generated>>
    <3>1. CASE FinishGenerate
      <4>1. rewritten' = (rewritten \/ at = "loading")
        BY <3>1 DEF FinishGenerate, Touch
      <4>2. (~rewritten') => ~rewritten /\ at # "loading"
        BY <4>1, Zenon
      <4>3. QED
        BY <3>1, <4>2 DEF FinishGenerate, EndSave, fundVars
    <3>2. CASE KillGenerate
      BY <3>2 DEF KillGenerate, AbandonSave, fundVars, commandVars
    <3>3. QED
      BY <1>2, <3>1, <3>2
  <2>2. ~Whole(Nothing) /\ Nothing.wallets = <<>> /\ Nothing.form # "plain"
    BY DEF Nothing, Content, Whole
  <2>3. FileInv'
    BY <2>1, <2>2 DEF FileInv, Whole, Saved
  <2>4. ReadInv'
    <3>1. (at = "loading" /\ ~rewritten') => Whole(file') /\ (encrypted <=> IsEncrypted')
      BY <2>1 DEF ReadInv, Whole, IsEncrypted
    <3>2. ASSUME at = "dialling", ~rewritten'
          PROVE  /\ \E g \in 1 .. generated : keys = WalletsOf(g)
                 /\ \A c \in {file', Nothing} : c.wallets = keys => c.password = Password
      BY <2>1, <2>2, <3>2, WalletsOfNotEmpty DEF ReadInv
    <3>3. QED
      BY <2>1, <3>1, <3>2 DEF ReadInv, Password
  <2>5. QED
    BY <2>3, <2>4
<1>3. QED
  BY <1>1, <1>2

(* LoadAny's two reads. *)
LEMMA LoadKeepsFile ==
    ASSUME FileInv, ReadInv,
           LoadKeystore \/ \E password \in AllPasswords : StartFund(password)
    PROVE  FileInv' /\ ReadInv'
<1>1. UNCHANGED <<file, writing, generated>>
  BY DEF LoadKeystore, StartFund, keystoreVars
<1>2. FileInv'
  BY <1>1 DEF FileInv, Saved
<1>3. CASE \E password \in AllPasswords : StartFund(password)
  <2>1. /\ at' = "off" \/ (at' = "loading" /\ Whole(file))
        /\ encrypted' = IsEncrypted
    BY <1>3 DEF StartFund, Parses, Whole
  <2>2. QED
    BY <1>1, <1>2, <2>1 DEF ReadInv, IsEncrypted, Whole
<1>4. CASE LoadKeystore
  <2>1. PICK loaded : loaded = IF encrypted THEN LoadEncrypted(opened) ELSE LoadPlain
    OBVIOUS
  <2>2. /\ at = "loading" /\ keys' = loaded.wallets
        /\ at' = "off" \/ (at' = "dialling" /\ loaded.ok)
        /\ UNCHANGED <<opened, encrypted, rewritten>>
    BY <1>4, <2>1 DEF LoadKeystore
  <2>3. ASSUME ~rewritten, loaded.ok
        PROVE  /\ loaded.wallets = file.wallets /\ Whole(file) /\ file.password = Password
    <3>1. Whole(file) /\ (encrypted <=> file.form = "encrypted")
      BY <2>2, <2>3 DEF ReadInv, IsEncrypted
    <3>2. CASE encrypted
      BY <2>1, <2>3, <3>1, <3>2 DEF LoadEncrypted, Loaded, LoadError, Password
    <3>3. CASE ~encrypted
      <4>1. file.form = "plain" /\ file.password = NoPassword
        BY <3>1, <3>3 DEF Whole, FileInv
      <4>2. QED
        BY <2>1, <3>1, <3>3, <4>1 DEF LoadPlain, Loaded, Password
    <3>4. QED
      BY <3>2, <3>3
  <2>4. ASSUME ~rewritten, loaded.ok
        PROVE  /\ \E g \in 1 .. generated : keys' = WalletsOf(g)
               /\ \A c \in {file, writing} : c.wallets = keys' => c.password = Password
    <3>1. PICK g \in 1 .. generated : file.wallets = WalletsOf(g)
      BY <2>3, <2>4 DEF FileInv, Saved
    <3>2. writing = Nothing
      BY <2>3, <2>4 DEF FileInv, Torn, Content, Whole
    <3>3. Nothing.wallets # keys'
      BY <2>2, <2>3, <2>4, <3>1, WalletsOfNotEmpty DEF Nothing, Content
    <3>4. QED
      BY <2>2, <2>3, <2>4, <3>1, <3>2, <3>3
  <2>5. ReadInv'
    BY <1>1, <2>2, <2>4 DEF ReadInv, Password
  <2>6. QED
    BY <1>2, <2>5
<1>5. QED
  BY <1>3, <1>4

(* The steps that do not touch the keystore or what was read of it. *)
LEMMA OtherKeepsFile ==
    ASSUME FileInv, ReadInv,
           UNCHANGED <<file, writing, generated>>,
           at' \notin {"loading", "dialling"} \/ UNCHANGED <<at, keys, opened, encrypted, rewritten>>
    PROVE  FileInv' /\ ReadInv'
BY DEF FileInv, ReadInv, Saved, IsEncrypted, Password
-----------------------------------------------------------------------------
KeystoreWallets == [keystore : 1 .. MaxGenerates, index : 1 .. Count]

(* The loop of Fund: there is a wallet for every transfer at hand, results *)
(* are of transfers that were made, and an exit status is a finished       *)
(* command's.                                                              *)
LoopInv ==
    /\ results \in Seq({"funded", "failed"})
    /\ keys \in Seq(KeystoreWallets) /\ Len(results) <= Len(keys)
    /\ at \in {"loading", "dialling"} => results = <<>>
    /\ at \in {"fetch", "build", "submit", "wait"} => Len(results) < Len(keys)
    /\ at # "off" => exit = "none"
    /\ DOMAIN done = Wallets /\ DOMAIN pool = Wallets

FundedInv == LoopInv /\ ExitMeansFunded

LEMMA Sender == Funder \in Wallets /\ Command \in VUs /\ Outside # Command
BY FundingAssumption

(* What was paid stays paid: later transfers are others. *)
LEMMA PaidStays ==
    ASSUME UNCHANGED commands, done[Funder] \subseteq done'[Funder],
           reverted' \cap done[Funder] \subseteq reverted, NEW w, Paid(w)
    PROVE  Paid(w)'
BY DEF Paid

(* Steps that settle no transfer. *)
LEMMA QuietKeepsFunded ==
    ASSUME FundedInv, UNCHANGED <<keys, results, commands>>,
           UNCHANGED exit \/ (exit' = "failed" /\ at' = "off"),
           done[Funder] \subseteq done'[Funder],
           reverted' \cap done[Funder] \subseteq reverted,
           DOMAIN done' = Wallets, DOMAIN pool' = Wallets,
           at' \in {"loading", "dialling"} => at' = at,
           at' \in {"fetch", "build", "submit", "wait"} => Len(results) < Len(keys),
           at' # "off" => at # "off"
    PROVE  FundedInv'
<1>1. LoopInv'
  BY DEF FundedInv, LoopInv
<1>2. ExitMeansFunded'
  BY PaidStays DEF FundedInv, ExitMeansFunded
<1>3. QED
  BY <1>1, <1>2 DEF FundedInv

(* A transfer is settled; it is called funded only if it was mined.        *)
LEMMA SettleKeepsFunded ==
    ASSUME FundedInv, NEW result \in {"funded", "failed"}, Settle(result),
           at \in {"fetch", "build", "submit", "wait"},
           UNCHANGED <<done, exit>>, DOMAIN pool' = Wallets,
           result = "funded" => Transfer \in done[Funder] \ reverted
    PROVE  FundedInv'
<1>1. /\ results' = Append(results, result) /\ at' = "next"
      /\ UNCHANGED <<keys, commands, reverted>>
  BY DEF Settle
<1>2. PICK n \in Nat : n = Len(results) /\ DOMAIN results = 1 .. n
  BY LenProperties DEF FundedInv, LoopInv
<1>3. /\ results' \in Seq({"funded", "failed"}) /\ Len(results') = n + 1
      /\ DOMAIN results' = 1 .. n + 1
      /\ \A j \in 1 .. n : results'[j] = results[j]
      /\ results'[n + 1] = result
  BY <1>1, <1>2, AppendProperties, LenProperties DEF FundedInv, LoopInv
<1>4. Len(keys) \in Nat /\ n + 1 <= Len(keys)
  BY <1>2, LenProperties DEF FundedInv, LoopInv
<1>5. LoopInv'
  BY <1>1, <1>3, <1>4 DEF FundedInv, LoopInv
<1>6. \A w : Paid(w)' <=> Paid(w)
  BY <1>1 DEF Paid
<1>7. ASSUME NEW j \in 1 .. n + 1, results'[j] = "funded" PROVE Paid(keys[j])
  <2>1. CASE j \in 1 .. n
    BY <1>2, <1>3, <1>7, <2>1 DEF FundedInv, ExitMeansFunded
  <2>2. CASE j = n + 1
    <3>1. Transfer \in done[Funder] \ reverted
      BY <1>3, <1>7, <2>2
    <3>2. /\ Transfer.by = Command
          /\ Transfer.k = [command |-> commands, to |-> keys[j]]
      BY <1>2, <2>2 DEF Transfer
    <3>3. QED
      BY <3>1, <3>2 DEF Paid
  <2>3. QED
    BY <1>2, <1>7, <2>1, <2>2
<1>8. exit = "none"
  BY DEF FundedInv, LoopInv
<1>9. ExitMeansFunded'
  BY <1>1, <1>3, <1>6, <1>7, <1>8 DEF ExitMeansFunded
<1>10. QED
  BY <1>5, <1>9 DEF FundedInv

LEMMA FundedInit == Init => FundedInv
<1> SUFFICES ASSUME Init PROVE FundedInv
  OBVIOUS
<1>1. /\ results = <<>> /\ keys = <<>> /\ at = "off" /\ exit = "none"
      /\ done = [w \in Wallets |-> {}] /\ pool = [w \in Wallets |-> {}]
  BY DEF Init, FundInit, NodeInit
<1>2. /\ <<>> \in Seq({"funded", "failed"}) /\ <<>> \in Seq(KeystoreWallets)
      /\ Len(<<>>) = 0 /\ DOMAIN <<>> = {}
  BY EmptySeq
<1>3. QED
  BY <1>1, <1>2 DEF FundedInv, LoopInv, ExitMeansFunded

(* The command starts, and has its wallets. *)
LEMMA StartKeepsFunded ==
    ASSUME FundedInv, \E password \in AllPasswords : StartFund(password)
    PROVE  FundedInv'
<1>1. /\ results' = <<>> /\ keys' = <<>> /\ UNCHANGED <<done, pool>>
      /\ exit' \in {"none", "failed"} /\ (at' # "off" => exit' = "none")
      /\ at' \in {"off", "loading"}
  BY DEF StartFund, nodeVars
<1>2. /\ <<>> \in Seq({"funded", "failed"}) /\ <<>> \in Seq(KeystoreWallets)
      /\ Len(<<>>) = 0 /\ DOMAIN <<>> = {}
  BY EmptySeq
<1>3. QED
  BY <1>1, <1>2 DEF FundedInv, LoopInv, ExitMeansFunded

LEMMA LoadKeepsFunded ==
    ASSUME FileInv, generated <= MaxGenerates, FundedInv, LoadKeystore
    PROVE  FundedInv'
<1>1. PICK loaded : loaded = IF encrypted THEN LoadEncrypted(opened) ELSE LoadPlain
  OBVIOUS
<1>2. /\ at = "loading" /\ keys' = loaded.wallets
      /\ at' \in {"off", "dialling"}
      /\ exit' = exit \/ (at' = "off" /\ exit' = "failed")
      /\ UNCHANGED <<results, done, pool>>
  BY <1>1 DEF LoadKeystore, nodeVars
<1>3. loaded.wallets \in {<<>>, file.wallets}
  BY <1>1 DEF LoadEncrypted, LoadPlain, Loaded, LoadError
<1>4. file.wallets = <<>> \/ \E g \in 1 .. generated : file.wallets = WalletsOf(g)
  BY DEF FileInv, Saved
<1>5. ASSUME NEW g \in 1 .. generated PROVE WalletsOf(g) \in Seq(KeystoreWallets)
  <2>1. g \in 1 .. MaxGenerates
    BY CommandAssumption DEF FileInv
  <2>2. Count \in Nat
    BY CommandAssumption
  <2>3. WalletsOf(g) \in [1 .. Count -> KeystoreWallets]
    BY <2>1 DEF WalletsOf, KeystoreWallets
  <2>4. QED
    BY <2>2, <2>3
<1>6. keys' \in Seq(KeystoreWallets)
  BY <1>2, <1>3, <1>4, <1>5, EmptySeq
<1>7. results = <<>> /\ exit = "none"
  BY <1>2 DEF FundedInv, LoopInv
<1>8. Len(results) = 0 /\ DOMAIN results = {} /\ Len(keys') \in Nat
  BY <1>6, <1>7, LenProperties
<1>9. QED
  BY <1>2, <1>6, <1>7, <1>8 DEF FundedInv, LoopInv, ExitMeansFunded

LEMMA FinishKeepsFunded ==
    ASSUME FundedInv, FinishFund
    PROVE  FundedInv'
<1>1. /\ Len(results) = Len(keys) /\ at' = "off"
      /\ exit' = "ok" => \A j \in DOMAIN results : results[j] = "funded"
      /\ UNCHANGED <<keys, results, commands, done, pool, reverted>>
  BY DEF FinishFund, nodeVars
<1>2. DOMAIN results = DOMAIN keys
  BY <1>1, LenProperties DEF FundedInv, LoopInv
<1>3. LoopInv'
  BY <1>1 DEF FundedInv, LoopInv
<1>4. \A w : Paid(w)' <=> Paid(w)
  BY <1>1 DEF Paid
<1>5. ExitMeansFunded'
  BY <1>1, <1>2, <1>4 DEF FundedInv, ExitMeansFunded
<1>6. QED
  BY <1>3, <1>5 DEF FundedInv

(* The transfers, one step of the loop at a time. *)
LEMMA FundKeepsFunded ==
    ASSUME FundedInv, Fund
    PROVE  FundedInv'
<1>1. FundStep /\ UNCHANGED exit
  BY DEF Fund, commandVars
<1>2. CASE TakeNonce \/ BeginFirstFetch \/ EndFirstFetch \/ Build
  BY <1>1, <1>2, QuietKeepsFunded
  DEF TakeNonce, BeginFirstFetch, EndFirstFetch, Build, AtNext, nodeVars, FundedInv, LoopInv
<1>3. CASE Submit
  <2>1. /\ at = "submit" /\ at' = "wait" /\ UNCHANGED <<done, keys, results, commands, reverted>>
        /\ DOMAIN pool' = DOMAIN pool
    BY <1>3 DEF Submit, Accept
  <2>2. QED
    BY <1>1, <2>1, QuietKeepsFunded DEF FundedInv, LoopInv
<1>4. CASE FailFirstFetch \/ FailBuild \/ SubmitRefused \/ SubmitReplyLost \/ FindReverted \/ GiveUp
  <2>1. /\ Settle("failed") /\ at \in {"fetch", "build", "submit", "wait"}
        /\ UNCHANGED done /\ DOMAIN pool' = DOMAIN pool
    BY <1>4 DEF FailFirstFetch, FailBuild, SubmitRefused, SubmitReplyLost, FindReverted, GiveUp,
                Accept, RejectNonce, RejectOther, nodeVars
  <2>2. QED
    BY <1>1, <2>1, SettleKeepsFunded DEF FundedInv, LoopInv
<1>5. CASE Confirm
  <2>1. /\ Settle("funded") /\ at = "wait" /\ Transfer \in done[Funder] \ reverted
        /\ UNCHANGED <<done, pool>>
    BY <1>5 DEF Confirm, nodeVars
  <2>2. QED
    BY <1>1, <2>1, SettleKeepsFunded DEF FundedInv, LoopInv
<1>6. QED
  BY <1>1, <1>2, <1>3, <1>4, <1>5 DEF FundStep

(* The rest of the world. *)
LEMMA OtherKeepsFunded ==
    ASSUME FundedInv,
           \/ FailBeforeFunding \/ StartFunding \/ KillFund
           \/ \E password \in AllPasswords : Generate(password)
           \/ FinishGenerate \/ KillGenerate
           \/ MineTransfer /\ UNCHANGED <<keystoreVars, commandVars>>
           \/ OtherPayment /\ UNCHANGED <<keystoreVars, commandVars>>
           \/ UNCHANGED vars
    PROVE  FundedInv'
<1>1. CASE FailBeforeFunding \/ KillFund
  BY <1>1, QuietKeepsFunded DEF FailBeforeFunding, KillFund, nodeVars, FundedInv, LoopInv
<1>2. CASE StartFunding
  <2>1. /\ at = "dialling" /\ at' = "next"
        /\ UNCHANGED <<keys, results, commands, exit, done, pool, reverted>>
    BY <1>2 DEF StartFunding, FundBegin, nodeVars
  <2>2. QED
    BY <2>1, QuietKeepsFunded DEF FundedInv, LoopInv
<1>3. CASE \/ \E password \in AllPasswords : Generate(password)
           \/ FinishGenerate \/ KillGenerate \/ UNCHANGED vars
  <2>1. UNCHANGED <<at, keys, results, commands, exit, done, pool, reverted>>
    BY <1>3 DEF Generate, FinishGenerate, KillGenerate, nodeVars, fundVars, commandVars, vars
  <2>2. QED
    BY <2>1, QuietKeepsFunded DEF FundedInv, LoopInv
<1>4. CASE MineTransfer /\ UNCHANGED <<keystoreVars, commandVars>>
  <2>1. /\ UNCHANGED <<at, keys, results, commands, exit>>
        /\ DOMAIN pool' = DOMAIN pool /\ DOMAIN done' = DOMAIN done
        /\ done[Funder] \subseteq done'[Funder]
    BY <1>4, Sender DEF MineTransfer, Mine, commandVars, FundedInv, LoopInv
  <2>2. reverted' \cap done[Funder] \subseteq reverted
    <3>1. PICK bad : bad \subseteq done'[Funder] \ done[Funder] /\ reverted' = reverted \cup bad
      BY <1>4 DEF MineTransfer
    <3>2. QED
      BY <3>1
  <2>3. QED
    BY <2>1, <2>2, QuietKeepsFunded DEF FundedInv, LoopInv
<1>5. CASE OtherPayment /\ UNCHANGED <<keystoreVars, commandVars>>
  <2>1. /\ UNCHANGED <<at, keys, results, commands, exit, done, reverted>>
        /\ DOMAIN pool' = DOMAIN pool
    BY <1>5 DEF OtherPayment, ExternalSend, fundVars, commandVars
  <2>2. QED
    BY <2>1, QuietKeepsFunded DEF FundedInv, LoopInv
<1>6. QED
  BY <1>1, <1>2, <1>3, <1>4, <1>5
-----------------------------------------------------------------------------
(* As long as nobody else sends from the funder's account, the pool holds  *)
(* one transaction for each nonce from the account's up to p, and the      *)
(* command's counter and nonce are p's, or, once a reply was lost, not     *)
(* beyond it.                                                              *)
PoolUpTo(p) ==
    /\ p \in Nat /\ mined[Funder] <= p
    /\ \A n \in Int : Pooled(Funder, n) <=> mined[Funder] <= n /\ n < p
    /\ \A t, u \in pool[Funder] : t.n = u.n => t = u

CounterAt(p) ==
    /\ at = "fetch" => next[Funder] = Unset
    /\ at \in {"next", "wait"} =>
         \/ next[Funder] = Unset /\ at = "next"
         \/ 0 <= next[Funder] /\ next[Funder] <= p /\ (~lost => next[Funder] = p)
    /\ at \in {"build", "submit"} =>
         /\ 0 <= held /\ held <= p /\ next[Funder] = held + 1
         /\ ~lost => held = p

NonceInv ==
    /\ next \in [Wallets -> Int] /\ mined \in [Wallets -> Nat]
    /\ DOMAIN pool = Wallets /\ \A t \in pool[Funder] : t.n \in Int
    /\ external \in Nat /\ held \in Int
    /\ external = 0 => \E p \in Nat : PoolUpTo(p) /\ CounterAt(p)

(* The nonce the chain expects next is p, and only p. *)
LEMMA PendingIsTop ==
    ASSUME NEW p, PoolUpTo(p), mined \in [Wallets -> Nat],
           \A t \in pool[Funder] : t.n \in Int
    PROVE  /\ IsPendingNonce(Funder, p)
           /\ \A n \in Int : IsPendingNonce(Funder, n) => n = p
<1>1. mined[Funder] \in Nat /\ p \in Nat /\ mined[Funder] <= p
  BY Sender DEF PoolUpTo
<1>2. \A n \in Int : Pooled(Funder, n) <=> mined[Funder] <= n /\ n < p
  BY DEF PoolUpTo
<1>3. IsPendingNonce(Funder, p)
  <2>1. p = mined[Funder] \/ \E t \in pool[Funder] : p = t.n + 1
    <3>1. CASE p = mined[Funder]
      BY <3>1
    <3>2. CASE p # mined[Funder]
      <4>1. Pooled(Funder, p - 1)
        BY <1>1, <1>2, <3>2
      <4>2. PICK t \in pool[Funder] : t.n = p - 1
        BY <4>1 DEF Pooled
      <4>3. p = t.n + 1
        BY <1>1, <4>2
      <4>4. QED
        BY <4>3
    <3>3. QED
      BY <3>1, <3>2
  <2>2. ~Pooled(Funder, p) /\ \A m \in mined[Funder] .. (p - 1) : Pooled(Funder, m)
    BY <1>1, <1>2
  <2>3. QED
    BY <1>1, <2>1, <2>2 DEF IsPendingNonce
<1>4. ASSUME NEW n \in Int, IsPendingNonce(Funder, n) PROVE n = p
  <2>1. n >= mined[Funder] /\ ~Pooled(Funder, n) /\ \A m \in mined[Funder] .. (n - 1) : Pooled(Funder, m)
    BY <1>4 DEF IsPendingNonce
  <2>2. n >= p
    BY <1>1, <1>2, <2>1
  <2>3. n > p => p \in mined[Funder] .. (n - 1)
    BY <1>1
  <2>4. ~Pooled(Funder, p)
    BY <1>1, <1>2
  <2>5. QED
    BY <1>1, <2>1, <2>2, <2>3, <2>4
<1>5. QED
  BY <1>3, <1>4

(* The node takes a transaction whose nonce is not beyond p: a new top, or *)
(* one that replaces another.                                              *)
LEMMA AcceptKeepsPool ==
    ASSUME NEW p, PoolUpTo(p), mined \in [Wallets -> Nat], DOMAIN pool = Wallets,
           \A u \in pool[Funder] : u.n \in Int,
           NEW t, Accept(Funder, t), t.n \in Int, t.n <= p,
           NEW q, q = IF t.n = p THEN p + 1 ELSE p
    PROVE  PoolUpTo(q)'
<1>1. /\ mined[Funder] \in Nat /\ p \in Nat /\ mined[Funder] <= p /\ mined[Funder] <= t.n
      /\ \A n \in Int : Pooled(Funder, n) <=> mined[Funder] <= n /\ n < p
  BY Sender DEF PoolUpTo, Accept, TooLow
<1>2. /\ pool'[Funder] = {u \in pool[Funder] : u.n # t.n} \cup {t}
      /\ mined'[Funder] = mined[Funder]
  BY Sender DEF Accept
<1>3. \A n : Pooled(Funder, n)' <=> Pooled(Funder, n) \/ n = t.n
  BY <1>2 DEF Pooled
<1>4. q \in Nat /\ mined'[Funder] <= q
  BY <1>1, <1>2
<1>5. ASSUME NEW n \in Int PROVE Pooled(Funder, n)' <=> mined'[Funder] <= n /\ n < q
  <2>1. Pooled(Funder, n) <=> mined[Funder] <= n /\ n < p
    BY <1>1
  <2>2. Pooled(Funder, n)' <=> Pooled(Funder, n) \/ n = t.n
    BY <1>3
  <2>3. CASE t.n = p
    BY <1>1, <1>2, <2>1, <2>2, <2>3
  <2>4. CASE t.n # p
    BY <1>1, <1>2, <2>1, <2>2, <2>4
  <2>5. QED
    BY <2>3, <2>4
<1>6. \A u, v \in pool'[Funder] : u.n = v.n => u = v
  BY <1>2 DEF PoolUpTo
<1>7. QED
  BY <1>4, <1>5, <1>6 DEF PoolUpTo

(* Steps that leave the node alone. *)
LEMMA QuietKeepsNonce ==
    ASSUME NonceInv, UNCHANGED <<mined, pool, external>>,
           next' \in [Wallets -> Int], held' \in Int,
           \A p \in Nat : PoolUpTo(p) /\ CounterAt(p) => CounterAt(p)'
    PROVE  NonceInv'
BY DEF NonceInv, PoolUpTo, Pooled

LEMMA NonceStart == Init => NonceInv
<1> SUFFICES ASSUME Init PROVE NonceInv
  OBVIOUS
<1>1. /\ at = "off" /\ held = -1 /\ external = 0
      /\ mined = [w \in Wallets |-> 0] /\ pool = [w \in Wallets |-> {}]
      /\ next = [w \in Wallets |-> -1]
  BY DEF Init, FundInit, NodeInit, NonceInit, NoNonce, Unset
<1>2. PoolUpTo(0) /\ CounterAt(0)
  BY <1>1, Sender DEF PoolUpTo, Pooled, CounterAt
<1>3. /\ next \in [Wallets -> Int] /\ mined \in [Wallets -> Nat]
      /\ DOMAIN pool = Wallets /\ pool[Funder] = {} /\ external \in Nat /\ held \in Int
  BY <1>1, Sender
<1>4. QED
  BY <1>2, <1>3 DEF NonceInv

(* Release rewinds the counter of a nonce held. *)
LEMMA ReleaseRewinds ==
    ASSUME NonceInv, Release(Funder, held), next[Funder] = held + 1
    PROVE  next' \in [Wallets -> Int] /\ next'[Funder] = held
BY Sender DEF NonceInv, Release

(* The steps of the loop. *)
LEMMA FundKeepsNonce ==
    ASSUME NonceInv, Fund
    PROVE  NonceInv'
<1>1. FundStep
  BY DEF Fund
<1>2. next \in [Wallets -> Int] /\ mined \in [Wallets -> Nat] /\ held \in Int
  BY DEF NonceInv
<1>3. CASE TakeNonce
  <2>1. /\ at = "next" /\ at' = "build" /\ held' = next[Funder] /\ next[Funder] # Unset
        /\ next' = [next EXCEPT ![Funder] = next[Funder] + 1]
        /\ UNCHANGED <<mined, pool, external, lost>>
    BY <1>3 DEF TakeNonce, AtNext, NextCached, nodeVars
  <2>2. held' \in Int /\ next' \in [Wallets -> Int] /\ next'[Funder] = held' + 1
    BY <1>2, <2>1, Sender
  <2>3. QED
    BY <2>1, <2>2, QuietKeepsNonce DEF CounterAt, PoolUpTo
<1>4. CASE BeginFirstFetch
  <2>1. at' = "fetch" /\ next[Funder] = Unset /\ UNCHANGED <<mined, pool, external, lost, held, next>>
    BY <1>4 DEF BeginFirstFetch, NextFetchBegin, nodeVars
  <2>2. QED
    BY <1>2, <2>1, QuietKeepsNonce DEF CounterAt
<1>5. CASE EndFirstFetch
  <2>1. PICK n \in PendingCandidates(Funder) :
          /\ IsPendingNonce(Funder, n)
          /\ next' = [next EXCEPT ![Funder] = n + 1] /\ held' = n
    BY <1>5 DEF EndFirstFetch, NextFetchEnd
  <2>2. at' = "build" /\ UNCHANGED <<mined, pool, done, external, lost>>
    BY <1>5 DEF EndFirstFetch, nodeVars
  <2>3. n \in Int
    BY <1>2, Sender DEF PendingCandidates, NonceInv
  <2>4. next' \in [Wallets -> Int] /\ next'[Funder] = n + 1
    BY <1>2, <2>1, <2>3, Sender
  <2>5. ASSUME NEW p \in Nat, PoolUpTo(p) PROVE CounterAt(p)'
    <3>1. n = p
      BY <1>2, <2>1, <2>3, <2>5, PendingIsTop DEF NonceInv
    <3>2. QED
      BY <2>1, <2>2, <2>4, <3>1 DEF CounterAt
  <2>6. QED
    BY <2>1, <2>2, <2>3, <2>4, <2>5, QuietKeepsNonce
<1>6. CASE FailFirstFetch
  <2>1. at = "fetch" /\ at' = "next" /\ held' = -1 /\ UNCHANGED <<mined, pool, external, lost, next>>
    BY <1>6 DEF FailFirstFetch, NextFetchError, Settle, nodeVars, NoNonce
  <2>2. QED
    BY <1>2, <2>1, QuietKeepsNonce DEF CounterAt
<1>7. CASE Build
  <2>1. at = "build" /\ at' = "submit" /\ UNCHANGED <<mined, pool, external, lost, next, held>>
    BY <1>7 DEF Build, nodeVars, nonceVars
  <2>2. QED
    BY <1>2, <2>1, QuietKeepsNonce DEF CounterAt
<1>8. CASE FailBuild \/ SubmitRefused
  <2>1. /\ at \in {"build", "submit"} /\ at' = "next" /\ held' = -1
        /\ Release(Funder, held)
        /\ UNCHANGED <<mined, pool, external, lost>>
    BY <1>8 DEF FailBuild, SubmitRefused, RejectNonce, RejectOther, Settle, nodeVars, NoNonce
  <2>2. next' \in [Wallets -> Int]
    BY <1>2, <2>1, Sender DEF Release
  <2>3. ASSUME NEW p \in Nat, PoolUpTo(p), CounterAt(p) PROVE CounterAt(p)'
    <3>1. /\ 0 <= held /\ held <= p /\ next[Funder] = held + 1
          /\ ~lost => held = p
      BY <2>1, <2>3 DEF CounterAt
    <3>2. next'[Funder] = held
      BY <2>1, <3>1, ReleaseRewinds
    <3>3. QED
      BY <2>1, <3>1, <3>2 DEF CounterAt
  <2>4. QED
    BY <2>1, <2>2, <2>3, QuietKeepsNonce
<1>9. CASE Submit \/ SubmitReplyLost
  <2>1. /\ at = "submit" /\ Accept(Funder, Transfer)
        /\ UNCHANGED <<mined, external>>
        /\ \/ at' = "wait" /\ UNCHANGED <<next, held, lost>>
           \/ at' = "next" /\ held' = -1 /\ Release(Funder, held) /\ lost'
    BY <1>9 DEF Submit, SubmitReplyLost, Accept, Settle, nonceVars, NoNonce
  <2>2. Transfer.n = held
    BY DEF Transfer
  <2>3. /\ pool'[Funder] = {u \in pool[Funder] : u.n # held} \cup {Transfer}
        /\ DOMAIN pool' = Wallets
    BY <2>1, <2>2, Sender DEF Accept, NonceInv
  <2>4. next' \in [Wallets -> Int] /\ held' \in Int
    BY <1>2, <2>1, Sender DEF Release
  <2>5. ASSUME external = 0 PROVE \E q \in Nat : PoolUpTo(q)' /\ CounterAt(q)'
    <3>1. PICK p \in Nat : PoolUpTo(p) /\ CounterAt(p)
      BY <2>5 DEF NonceInv
    <3>2. /\ 0 <= held /\ held <= p /\ next[Funder] = held + 1
          /\ ~lost => held = p
      BY <2>1, <3>1 DEF CounterAt
    <3>3. PICK q \in Nat : q = IF held = p THEN p + 1 ELSE p
      OBVIOUS
    <3>4. PoolUpTo(q)'
      <4>1. PICK t : t = Transfer
        OBVIOUS
      <4>2. Accept(Funder, t) /\ t.n = held
        BY <2>1, <2>2, <4>1
      <4>3. t.n \in Int /\ t.n <= p /\ q = IF t.n = p THEN p + 1 ELSE p
        BY <1>2, <3>2, <3>3, <4>2
      <4>4. DOMAIN pool = Wallets /\ \A u \in pool[Funder] : u.n \in Int
        BY DEF NonceInv
      <4>5. QED
        BY <1>2, <3>1, <4>2, <4>3, <4>4, AcceptKeepsPool
    <3>5. held <= q /\ held + 1 <= q /\ (held = p => q = held + 1)
      <4>1. CASE held = p
        BY <3>3, <4>1
      <4>2. CASE held # p
        BY <1>2, <3>2, <3>3, <4>2
      <4>3. QED
        BY <4>1, <4>2
    <3>6. CASE at' = "wait" /\ UNCHANGED <<next, held, lost>>
      <4>1. next'[Funder] = held' + 1 /\ 0 <= held' /\ held' + 1 <= q /\ held' <= q
        BY <1>2, <3>2, <3>5, <3>6
      <4>2. ~lost' => next'[Funder] = q
        <5>1. ~lost' => ~lost
          BY ONLY <3>6, Zenon
        <5>2. ~lost => held = p
          BY ONLY <3>2, Zenon
        <5>3. held = p => next'[Funder] = q
          BY <1>2, <3>2, <3>5, <3>6
        <5>4. QED
          BY ONLY <5>1, <5>2, <5>3, Zenon
      <4>3. CounterAt(q)'
        <5>1. next'[Funder] \in Int /\ at' = "wait" /\ 0 <= next'[Funder] /\ next'[Funder] <= q
          BY <1>2, <2>4, <3>6, <4>1
        <5>2. QED
          BY ONLY <4>2, <5>1 DEF CounterAt
      <4>4. QED
        BY ONLY <3>4, <4>3, Zenon
    <3>7. CASE at' = "next" /\ held' = -1 /\ Release(Funder, held) /\ lost'
      <4>1. next'[Funder] = held
        BY <3>2, <3>7, ReleaseRewinds
      <4>2. CounterAt(q)'
        BY <3>2, <3>5, <3>7, <4>1 DEF CounterAt
      <4>3. QED
        BY <3>4, <4>2
    <3>8. QED
      BY <2>1, <3>4, <3>6, <3>7
  <2>6. QED
    BY <1>2, <2>1, <2>2, <2>3, <2>4, <2>5 DEF NonceInv
<1>10. CASE Confirm \/ FindReverted \/ GiveUp
  <2>1. at = "wait" /\ at' = "next" /\ held' = -1 /\ UNCHANGED <<mined, pool, external, lost, next>>
    BY <1>10 DEF Confirm, FindReverted, GiveUp, Settle, nodeVars, nonceVars, NoNonce
  <2>2. QED
    BY <1>2, <2>1, QuietKeepsNonce DEF CounterAt
<1>11. QED
  BY <1>1, <1>3, <1>4, <1>5, <1>6, <1>7, <1>8, <1>9, <1>10 DEF FundStep

(* A block, somebody else's transaction, and the steps between transfers. *)
LEMMA OtherKeepsNonce ==
    ASSUME NonceInv,
           \/ FailBeforeFunding \/ StartFunding \/ KillFund \/ FinishFund \/ LoadKeystore
           \/ \E password \in AllPasswords : Generate(password) \/ StartFund(password)
           \/ FinishGenerate \/ KillGenerate
           \/ MineTransfer /\ UNCHANGED <<keystoreVars, commandVars>>
           \/ OtherPayment /\ UNCHANGED <<keystoreVars, commandVars>>
           \/ UNCHANGED vars
    PROVE  NonceInv'
<1>2. /\ next \in [Wallets -> Int] /\ mined \in [Wallets -> Nat] /\ held \in Int
      /\ DOMAIN pool = Wallets /\ external \in Nat
      /\ \A t \in pool[Funder] : t.n \in Int
  BY DEF NonceInv
<1>3. CASE FailBeforeFunding \/ KillFund \/ FinishFund \/ LoadKeystore
           \/ \E password \in AllPasswords : StartFund(password)
  <2>1. /\ at' \in {"off", "loading", "dialling"}
        /\ UNCHANGED <<mined, pool, external, next>> /\ held' \in {held, -1}
    BY <1>3 DEF FailBeforeFunding, KillFund, FinishFund, LoadKeystore, StartFund, nodeVars,
                nonceVars, NoNonce
  <2>2. QED
    BY <1>2, <2>1, QuietKeepsNonce DEF CounterAt
<1>4. CASE StartFunding
  <2>1. /\ at' = "next" /\ UNCHANGED <<mined, pool, external, held>>
        /\ next' = [w \in Wallets |-> Unset]
    BY <1>4 DEF StartFunding, FundBegin, nodeVars
  <2>2. next' \in [Wallets -> Int] /\ next'[Funder] = Unset
    BY <2>1, Sender DEF Unset
  <2>3. QED
    BY <1>2, <2>1, <2>2, QuietKeepsNonce DEF CounterAt
<1>5. CASE \/ \E password \in AllPasswords : Generate(password)
           \/ FinishGenerate \/ KillGenerate \/ UNCHANGED vars
  <2>1. UNCHANGED <<mined, pool, external, next, held, at, lost>>
    BY <1>5 DEF Generate, FinishGenerate, KillGenerate, vars, nonceVars, nodeVars, fundVars
  <2>2. QED
    BY <1>2, <2>1, QuietKeepsNonce DEF CounterAt
<1>6. CASE MineTransfer
  <2>1. UNCHANGED <<next, held, at, lost, external>>
    BY <1>6 DEF MineTransfer, Mine, nonceVars
  <2>2. PICK t \in pool[Funder] :
          /\ t.n = mined[Funder]
          /\ mined' = [mined EXCEPT ![Funder] = @ + 1]
          /\ pool' = [pool EXCEPT ![Funder] = @ \ {t}]
    BY <1>6 DEF MineTransfer, Mine
  <2>3. /\ mined' \in [Wallets -> Nat] /\ mined'[Funder] = mined[Funder] + 1
        /\ mined[Funder] \in Nat
        /\ DOMAIN pool' = Wallets /\ pool'[Funder] = pool[Funder] \ {t}
    BY <1>2, <2>2, Sender
  <2>4. ASSUME NEW p \in Nat, PoolUpTo(p) PROVE PoolUpTo(p)'
    <3>1. \A n \in Int : Pooled(Funder, n) <=> mined[Funder] <= n /\ n < p
      BY <2>4 DEF PoolUpTo
    <3>2. mined[Funder] < p
      BY <2>2, <2>3, <3>1 DEF Pooled
    <3>3. \A n : Pooled(Funder, n)' <=> Pooled(Funder, n) /\ n # t.n
      BY <2>3, <2>4 DEF Pooled, PoolUpTo
    <3>4. \A n \in Int : Pooled(Funder, n)' <=> mined'[Funder] <= n /\ n < p
      BY <2>2, <2>3, <3>1, <3>3
    <3>5. QED
      BY <2>3, <2>4, <3>2, <3>4 DEF PoolUpTo
  <2>5. \A p : CounterAt(p)' <=> CounterAt(p)
    BY <2>1 DEF CounterAt
  <2>6. QED
    BY <1>2, <2>1, <2>3, <2>4, <2>5 DEF NonceInv
<1>7. CASE OtherPayment
  <2>1. PICK n \in PendingCandidates(Funder) :
          pool' = [pool EXCEPT ![Funder] = @ \cup {[n |-> n, by |-> Outside, k |-> external]}]
    BY <1>7 DEF OtherPayment, ExternalSend
  <2>2. n \in Int
    BY <1>2, Sender DEF PendingCandidates
  <2>3. external' = external + 1 /\ UNCHANGED <<mined, next, held>>
    BY <1>7 DEF OtherPayment, ExternalSend, nonceVars, fundVars
  <2>4. DOMAIN pool' = Wallets /\ \A t \in pool'[Funder] : t.n \in Int
    BY <1>2, <2>1, <2>2, Sender
  <2>5. external' \in Nat /\ external' # 0
    BY <1>2, <2>3
  <2>6. QED
    BY <1>2, <2>3, <2>4, <2>5 DEF NonceInv
<1>8. QED
  BY <1>3, <1>4, <1>5, <1>6, <1>7
-----------------------------------------------------------------------------
WalletsInv == FileInv /\ generated <= MaxGenerates /\ ReadInv /\ FundedInv /\ NonceInv

(* The inductive invariant. *)
THEOREM Invariance == Spec => []WalletsInv
<1>1. Init => WalletsInv
  BY FileInit, FundedInit, NonceStart, CommandAssumption DEF Init, WalletsInv
<1>2. ASSUME WalletsInv, [Next]_vars PROVE WalletsInv'
  <2>1. FileInv' /\ ReadInv'
    <3>1. CASE FailBeforeFunding \/ StartFunding \/ KillFund \/ FinishFund
      <4>1. UNCHANGED <<file, writing, generated>> /\ at' \notin {"loading", "dialling"}
        BY <3>1 DEF FailBeforeFunding, StartFunding, KillFund, FinishFund, FundBegin, Forget,
                    keystoreVars
      <4>2. QED
        BY <1>2, <4>1, OtherKeepsFile DEF WalletsInv
    <3>2. CASE Fund
      <4>1. UNCHANGED <<file, writing, generated>> /\ at' \notin {"loading", "dialling"}
        BY <3>2 DEF Fund, FundStep, keystoreVars, commandVars, TakeNonce, BeginFirstFetch,
                    EndFirstFetch, FailFirstFetch, Build, FailBuild, Submit, SubmitRefused,
                    SubmitReplyLost, Confirm, FindReverted, GiveUp, Settle
      <4>2. QED
        BY <1>2, <4>1, OtherKeepsFile DEF WalletsInv
    <3>3. CASE \/ (MineTransfer \/ OtherPayment) /\ UNCHANGED <<keystoreVars, commandVars>>
               \/ UNCHANGED vars
      <4>1. UNCHANGED <<file, writing, generated, at, keys, opened, encrypted, rewritten>>
        BY <3>3 DEF MineTransfer, OtherPayment, fundVars, commandVars, keystoreVars, vars
      <4>2. QED
        BY <1>2, <4>1, OtherKeepsFile DEF WalletsInv
    <3>4. QED
      BY <1>2, <3>1, <3>2, <3>3, SaveKeepsFile, LoadKeepsFile
      DEF WalletsInv, Next, FundCommand
  <2>2. generated' <= MaxGenerates
    <3>1. CASE \E password \in AllPasswords : Generate(password)
      BY <1>2, <3>1, CommandAssumption DEF Generate, WalletsInv, FileInv
    <3>2. CASE ~ \E password \in AllPasswords : Generate(password)
      <4>1. UNCHANGED generated
        BY <1>2, <3>2
        DEF Next, FundCommand, FinishGenerate, KillGenerate, StartFund, LoadKeystore,
            FailBeforeFunding, StartFunding, Fund, FinishFund, KillFund, Forget, commandVars, vars
      <4>2. QED
        BY <1>2, <4>1 DEF WalletsInv
    <3>3. QED
      BY <3>1, <3>2
  <2>3. FundedInv'
    BY <1>2, StartKeepsFunded, LoadKeepsFunded, FinishKeepsFunded, FundKeepsFunded,
       OtherKeepsFunded
    DEF WalletsInv, Next, FundCommand
  <2>4. NonceInv'
    BY <1>2, FundKeepsNonce, OtherKeepsNonce DEF WalletsInv, Next, FundCommand
  <2>5. QED
    BY <2>1, <2>2, <2>3, <2>4 DEF WalletsInv
<1>3. QED
  BY <1>1, <1>2, PTL DEF Spec

(* What LoadAny returns was saved whole and with the password given, if no *)
(* writer came between its two reads (wallet/encrypt.go), whatever was     *)
(* killed before.                                                          *)
THEOREM LoadsWhatWasSaved == Spec => []LoadedWasSaved
<1>1. WalletsInv => LoadedWasSaved
  BY DEF WalletsInv, ReadInv, LoadedWasSaved, Password
<1>2. QED
  BY <1>1, Invariance, PTL

(* "funded" and exit status 0 are of mined transfers that did not revert   *)
(* (wallet/fund.go, cmd_wallets.go).                                       *)
THEOREM FundedIsPaid == Spec => []ExitMeansFunded
<1>1. WalletsInv => ExitMeansFunded
  BY DEF WalletsInv, FundedInv
<1>2. QED
  BY <1>1, Invariance, PTL

(* A transfer has the nonce the chain expects next (Next and Release of    *)
(* the nonce manager, as Fund uses them), unless this command lost a reply *)
(* or another process uses the key.                                        *)
THEOREM NonceOnCourse == Spec => []NonceIsNext
<1>1. ASSUME WalletsInv PROVE NonceIsNext
  <2>1. SUFFICES ASSUME at \in {"build", "submit"}, ~lost, external = 0
                 PROVE  IsPendingNonce(Funder, held)
    BY DEF NonceIsNext
  <2>2. PICK p \in Nat : PoolUpTo(p) /\ CounterAt(p)
    BY <1>1, <2>1 DEF WalletsInv, NonceInv
  <2>3. held = p
    BY <2>1, <2>2 DEF CounterAt
  <2>4. IsPendingNonce(Funder, p)
    BY <1>1, <2>2, PendingIsTop DEF WalletsInv, NonceInv
  <2>5. QED
    BY <2>3, <2>4
<1>2. QED
  BY <1>1, Invariance, PTL
=============================================================================
