-------------------------- MODULE Download_proofs --------------------------
(***************************************************************************)
(* Theorems about Download, for any files, any window, any number of       *)
(* levels, messages and commands under way: what a player gets of a file   *)
(* is that file, and nobody who keeps to the protocol is dropped.          *)
(***************************************************************************)
EXTENDS Download, TLAPS, WellFoundedInduction

-----------------------------------------------------------------------------
(* Types                                                                   *)

Named == Files \cup {None}

\* The commands of the client that have no argument.
Plain == {"stopdl", "donedl", "wwwdl_ack", "wwwdl_done", "wwwdl_fail"}

Commands == [cmd : {"download"}, arg : Files] \cup [cmd : {"nextdl"}, arg : Nat]
            \cup [cmd : Plain, arg : {None}]

Messages == [type : {"gamestate"}, serverId : Nat] \cup [type : {"www"}, file : Named]
            \cup [type : {"block"}, block : Int, data : Blocks]

Servers == [state : {"connected", "dropped", "timed_out"}, serverId : Nat,
            nextdl : BOOLEAN, gamestate : BOOLEAN, downloadName : Named, download : BOOLEAN,
            bWWWDl : BOOLEAN, bWWWing : BOOLEAN, bFallback : BOOLEAN,
            clientBlock : Nat, currentBlock : Nat, xmitBlock : Nat,
            blocks : [0..MAX_DOWNLOAD_WINDOW - 1 -> Blocks]]

Clients == [state : {"connected", "loading"}, serverId : Nat, commands : Seq(Commands),
            downloadName : Named, downloadList : Seq(Files), downloadRestart : BOOLEAN,
            downloadBlock : Nat, open : BOOLEAN, temp : Seq(Blocks), bWWWDl : BOOLEAN,
            aborting : BOOLEAN, fetching : Named, redirected : SUBSET Named,
            bad : SUBSET Named, saved : SUBSET [name : Named, content : Seq(Blocks)],
            known : SUBSET Files, faulty : BOOLEAN, mixed : BOOLEAN]

Mirrors == [Files -> {"good", "wrong", "missing", "off"}]

\* A file is open only while the server has its name.
OpenHasName(s) == s.download => s.downloadName # None

Typed ==
    /\ sv \in Servers /\ OpenHasName(sv) /\ sv.gamestate = FALSE
    /\ cl \in Clients /\ toClient \in Seq(Messages) /\ mirror \in Mirrors

-----------------------------------------------------------------------------
(* The invariant                                                           *)

\* Half of what a number in a message tells apart: read back, these are themselves.
Half == Shorts \div 2

\* A command after which the server sends no file.
Closes(s, m) ==
    \/ m.cmd \in {"stopdl", "wwwdl_done"}
    \/ m.cmd = "nextdl" /\ m.arg = Size[s.downloadName]

\* When the ith command is executed the server sends no file.
AfterClose(s, c, i) ==
    IF i = 1 THEN s.downloadName = None ELSE Closes(s, c.commands[i - 1])

\* The server repeats a redirect until it is acknowledged.
Redirecting(s, web) ==
    /\ s.downloadName # None /\ ~s.download /\ ~s.bWWWing /\ ~s.bFallback /\ s.bWWWDl
    /\ web[s.downloadName] # "off"

\* A place of the window that was written holds the last block read that belongs there.
PlaceInv(s, k) ==
    LET b == s.blocks[k % MAX_DOWNLOAD_WINDOW]
    IN  /\ b.file = s.downloadName
        /\ s.currentBlock <= k + MAX_DOWNLOAD_WINDOW => b = Block(s.downloadName, k)

\* The window of a file that is open.
OpenInv(s) ==
    /\ s.clientBlock <= Size[s.downloadName] /\ s.clientBlock <= Half
    /\ s.currentBlock <= Size[s.downloadName] + 1
    /\ \A k \in 0..s.currentBlock - 1 : PlaceInv(s, k)

WindowInv(s) ==
    /\ s.clientBlock <= s.currentBlock /\ s.xmitBlock <= s.currentBlock
    /\ s.currentBlock <= s.clientBlock + MAX_DOWNLOAD_WINDOW
    /\ s.bWWWing => s.bWWWDl /\ s.downloadName # None /\ ~s.download
    /\ s.download => OpenInv(s)

\* What it takes to execute the ith of the client's commands.  Acknowledgements come first, in
\* the order of the blocks.
NextdlInv(s, c, i) ==
    /\ s.download
    /\ c.commands[i].arg = s.clientBlock + i - 1
    /\ c.commands[i].arg < Half /\ c.commands[i].arg < s.currentBlock
    /\ \A j \in 1..i - 1 : c.commands[j].cmd = "nextdl"

\* Nothing follows the request for a file, which the server does not send yet.
RequestInv(s, c, i) ==
    /\ i = Len(c.commands) /\ c.commands[i].arg = c.downloadName
    /\ c.downloadName # s.downloadName /\ c.downloadBlock = 0
    /\ ~c.open /\ ~c.bWWWDl /\ c.fetching = None
    /\ AfterClose(s, c, i)

AckInv(s, c, web, i) ==
    /\ i = 1 /\ Redirecting(s, web)
    /\ Len(c.commands) > 1 => c.commands[2].cmd \in {"wwwdl_done", "wwwdl_fail"}
    /\ Len(c.commands) = 1 => c.fetching # None

\* The redirect was acknowledged.
Answered(s, c, i) ==
    \/ i = 1 /\ s.bWWWing
    \/ i = 2 /\ c.commands[1].cmd = "wwwdl_ack"

DonedlInv(s, c, i) ==
    /\ c.downloadName = None
    /\ AfterClose(s, c, i)
    /\ \A j \in i + 1..Len(c.commands) : c.commands[j].cmd = "stopdl"

CommandInv(s, c, web, i) ==
    /\ c.commands[i].cmd = "nextdl"     => NextdlInv(s, c, i)
    /\ c.commands[i].cmd = "download"   => RequestInv(s, c, i)
    /\ c.commands[i].cmd = "wwwdl_ack"  => AckInv(s, c, web, i)
    /\ c.commands[i].cmd = "wwwdl_done" => Answered(s, c, i)
    /\ c.commands[i].cmd = "wwwdl_fail" =>
          Answered(s, c, i) /\ i = Len(c.commands) /\ c.downloadName # None
    /\ c.commands[i].cmd = "donedl"     => DonedlInv(s, c, i)

\* While the web server is asked, the next command says how that went.
AnswerInv(s, c) ==
    s.bWWWing => IF Len(c.commands) > 0
                 THEN c.commands[1].cmd \in {"wwwdl_done", "wwwdl_fail"}
                 ELSE c.fetching # None

\* A gamestate is to be sent or under way.
Coming(s, w) == s.gamestate \/ \E i \in 1..Len(w) : w[i].type = "gamestate"

\* Nothing is sent after a gamestate until the client has seen it.
GamestateInv(s, c, w) ==
    /\ \A i \in 1..Len(w) : w[i].type = "gamestate" => i = Len(w) /\ ~s.gamestate
    /\ Coming(s, w) => /\ s.downloadName = None
                       /\ \A i \in 1..Len(c.commands) : c.commands[i].cmd = "stopdl"

\* Where a client is that waits for a file: it has asked for it,
Asked(c) == Len(c.commands) > 0 /\ c.commands[Len(c.commands)].cmd = "download"

\* what is collected is the beginning of the file,
Collected(c) ==
    /\ c.open = (c.downloadBlock > 0)
    /\ c.open => /\ Len(c.temp) = c.downloadBlock
                 /\ \A k \in 1..c.downloadBlock : c.temp[k] = Block(c.downloadName, k - 1)

\* it gets the file's blocks and acknowledges them,
Served(s, c) ==
    /\ s.downloadName = c.downloadName /\ ~s.bWWWing /\ ~c.bWWWDl /\ c.fetching = None
    /\ \A i \in 1..Len(c.commands) : c.commands[i].cmd = "nextdl"
    /\ c.downloadBlock = (IF s.download THEN s.clientBlock + Len(c.commands) ELSE 0)
    /\ c.downloadBlock <= Size[c.downloadName]
    /\ Collected(c)

\* it asks the web server,
Fetching(s, c) ==
    /\ s.downloadName = c.downloadName /\ c.bWWWDl /\ c.fetching = c.downloadName /\ ~c.open
    /\ \/ Len(c.commands) = 0 /\ s.bWWWing
       \/ Len(c.commands) = 1 /\ c.commands[1].cmd = "wwwdl_ack"

\* it has given the web server up,
Failed(s, c) ==
    /\ c.bWWWDl /\ c.fetching = None /\ ~c.open
    /\ \/ Len(c.commands) = 0 /\ s.downloadName = None
       \/ Len(c.commands) > 0 /\ c.commands[Len(c.commands)].cmd = "wwwdl_fail"

\* or its request was skipped, as it was at an old level.
Skipped(s, c) ==
    /\ Len(c.commands) = 0 /\ s.downloadName = None
    /\ ~c.bWWWDl /\ c.fetching = None /\ ~c.open /\ c.downloadBlock = 0

ClientInv(s, c) ==
    /\ c.state = "loading" => c.downloadName = None
    /\ c.downloadName = None => c.fetching = None /\ ~c.open
    /\ c.downloadName # None =>
          /\ c.downloadRestart
          /\ Asked(c) \/ Served(s, c) \/ Fetching(s, c) \/ Failed(s, c) \/ Skipped(s, c)

\* The files still to come are not asked for yet.
Unasked(c, f) == \A i \in 1..Len(c.downloadList) : c.downloadList[i] # f

ListInv(s, c) ==
    /\ \A i, j \in 1..Len(c.downloadList) : c.downloadList[i] = c.downloadList[j] => i = j
    /\ Unasked(c, c.downloadName) /\ Unasked(c, s.downloadName)

\* A redirect under way for the file the client waits for is followed or known already.
RedirectInv(s, c, web, m) ==
    m.type = "www" =>
       /\ m.file \in Files /\ Unasked(c, m.file)
       /\ m.file = c.downloadName =>
             \/ c.bWWWDl
             \/ Len(c.commands) = 0 /\ s.downloadName = m.file /\ Redirecting(s, web)

\* The number of a block of the file the client waits for is that of its data, or is of a
\* block the client has.
Numbered(s, c, m) ==
    \E n \in 0..Shorts - 1 :
       /\ m.block = Short(n) /\ n < s.currentBlock
       /\ n < c.downloadBlock \/ m.data = Block(m.data.file, n)

BlockInv(s, c, m) ==
    m.type = "block" =>
       /\ m.data.file \in Files /\ Unasked(c, m.data.file)
       /\ m.data.file = c.downloadName =>
             /\ ~c.bWWWDl /\ s.download /\ s.downloadName = m.data.file
             /\ Numbered(s, c, m)

MessageInv(s, c, web, m) == RedirectInv(s, c, web, m) /\ BlockInv(s, c, m)

Protocol(s, c, w, web) ==
    /\ s.state # "dropped" /\ WindowInv(s)
    /\ \A i \in 1..Len(c.commands) : CommandInv(s, c, web, i)
    /\ AnswerInv(s, c) /\ GamestateInv(s, c, w) /\ ClientInv(s, c) /\ ListInv(s, c)
    /\ \A i \in 1..Len(w) : MessageInv(s, c, web, w[i])

\* What the disk has, and what is known of it.
DiskInv(c) ==
    /\ \A r \in c.saved : r.content # <<>> => r.content = Whole(r.name)
    /\ \A r \in c.saved : r.name # None
    /\ c.redirected \subseteq Files /\ c.bad \subseteq Files

Inv ==
    /\ Typed
    /\ ~cl.mixed => Protocol(sv, cl, toClient, mirror) /\ DiskInv(cl)

-----------------------------------------------------------------------------
(* Numbers                                                                 *)

LEMMA WindowType == MAX_DOWNLOAD_WINDOW \in Nat \ {0}
  BY DownloadAssumption

LEMMA HalfType ==
    /\ Half \in Nat /\ Shorts \in Nat /\ Shorts = 2 * Half
    /\ MAX_DOWNLOAD_WINDOW <= Half /\ 0 < Half
  <1>1. /\ Shorts \in Nat /\ Shorts % 2 = 0 /\ 2 * MAX_DOWNLOAD_WINDOW <= Shorts
        /\ MAX_DOWNLOAD_WINDOW \in Nat /\ MAX_DOWNLOAD_WINDOW > 0
    BY DownloadAssumption
  <1>2. Shorts = 2 * Half /\ Half \in Int
    BY <1>1 DEF Half
  <1> QED
    BY <1>1, <1>2

\* A number that is read back as one of a block is that block's.
LEMMA ReadBack ==
    ASSUME NEW n \in 0..Shorts - 1
    PROVE  /\ Short(n) \in Int
           /\ Short(n) >= 0 => Short(n) = n /\ n < Half
           /\ n < Half => Short(n) = n
  <1> DEFINE x == n + Half
             h == Half
  <1>1. /\ h \in Nat /\ Shorts \in Nat /\ Shorts = 2 * h /\ 0 < h
        /\ x \in Nat /\ n \in Nat /\ n < 2 * h /\ x = n + h
    BY HalfType
  <1>2. Short(n) = (x % Shorts) - h
    BY DEF Short, Half
  <1> HIDE DEF x, h
  <1>3. CASE n < h
    <2>1. x < Shorts
      BY <1>1, <1>3
    <2>2. x % Shorts = x
      BY <1>1, <2>1
    <2> QED
      BY <1>1, <1>2, <1>3, <2>2 DEF h
  <1>4. CASE ~(n < h)
    <2> DEFINE y == n - h
    <2>1. y \in Nat /\ y < Shorts /\ x = y + Shorts
      BY <1>1, <1>4
    <2> HIDE DEF y
    <2>2. x % Shorts = y % Shorts
      BY <1>1, <2>1
    <2>3. y % Shorts = y
      BY <1>1, <2>1
    <2>4. y = n - h
      BY DEF y
    <2> QED
      BY <1>1, <1>2, <1>4, <2>2, <2>3, <2>4 DEF h
  <1> QED
    BY <1>3, <1>4

\* A multiple of a positive number is not strictly between zero and the number.
LEMMA Multiples ==
    ASSUME NEW k \in Nat \ {0}, NEW d \in Int
    PROVE  k * d <= 0 \/ k * d >= k
  <1>1. CASE d <= 0
    BY <1>1
  <1>2. CASE d >= 1
    <2>1. PICK j \in Nat : d = j + 1
      BY <1>2
    <2>2. k * d = k * j + k /\ k * j \in Nat
      BY <2>1
    <2> QED
      BY <2>2
  <1> QED
    BY <1>1, <1>2

\* Blocks less than a window apart have places apart.
LEMMA PlacesApart ==
    ASSUME NEW a \in Nat, NEW b \in Nat, a < b, b - a < MAX_DOWNLOAD_WINDOW
    PROVE  a % MAX_DOWNLOAD_WINDOW # b % MAX_DOWNLOAD_WINDOW
  <1> DEFINE k == MAX_DOWNLOAD_WINDOW
             p == a \div k
             q == b \div k
  <1>1. k \in Nat \ {0}
    BY WindowType
  <1>2. /\ a = k * p + (a % k) /\ b = k * q + (b % k)
        /\ p \in Int /\ q \in Int
    BY <1>1
  <1>3. SUFFICES ASSUME a % k = b % k PROVE FALSE
    OBVIOUS
  <1>4. b - a = k * (q - p)
    BY <1>1, <1>2, <1>3
  <1>5. k * (q - p) <= 0 \/ k * (q - p) >= k
    BY <1>1, <1>2, Multiples
  <1> QED
    BY <1>1, <1>4, <1>5

LEMMA PlaceType ==
    ASSUME NEW n \in Nat
    PROVE  n % MAX_DOWNLOAD_WINDOW \in 0..MAX_DOWNLOAD_WINDOW - 1
  BY WindowType

-----------------------------------------------------------------------------
(* Recursive functions                                                     *)

\* Induction up to a number, over the set of the numbers a fact holds for.
LEMMA UpTo ==
    ASSUME NEW n \in Nat, NEW T, 0 \in T, \A i \in 1..n : i - 1 \in T => i \in T
    PROVE  \A i \in 0..n : i \in T
  <1> DEFINE U == {i \in 0..n : i \notin T}
  <1> SUFFICES ASSUME U # {} PROVE FALSE
    OBVIOUS
  <1>1. IsWellFoundedOn(OpToRel(<, Nat), Nat)
    BY NatLessThanWellFounded
  <1>2. PICK x \in U : \A y \in U : ~(<<y, x>> \in OpToRel(<, Nat))
    <2>1. U \subseteq Nat
      OBVIOUS
    <2> HIDE DEF U
    <2> QED
      BY <1>1, <2>1, WFMin
  <1>3. \A y \in U : ~(y < x)
    <2> SUFFICES ASSUME NEW y \in U, y < x PROVE FALSE
      OBVIOUS
    <2>1. y \in Nat /\ x \in Nat
      OBVIOUS
    <2>2. <<y, x>> \in OpToRel(<, Nat)
      BY <2>1 DEF OpToRel
    <2> QED
      BY <1>2, <2>2
  <1>4. x # 0 /\ x \in 1..n /\ x - 1 \in 0..n
    OBVIOUS
  <1>5. x - 1 \notin U
    BY <1>3, <1>4
  <1> QED
    BY <1>4, <1>5

\* The ith step takes x to f[i][x]; g has what comes of it from a.
Stepping(n, S, a, f) == n \in Nat /\ a \in S /\ f \in [1..n -> [S -> S]]

Stepped(n, S, a, f, g) ==
    g \in [0..n -> S] /\ g[0] = a /\ \A i \in 1..n : g[i] = f[i][g[i - 1]]

\* A function that is defined step by step exists, whatever the step.
LEMMA StepsExist ==
    ASSUME NEW n, NEW S, NEW a, NEW f, Stepping(n, S, a, f)
    PROVE  \E g : Stepped(n, S, a, f, g)
  <1> USE DEF Stepping, Stepped
  <1> DEFINE P(k) == \E g \in [0..k -> S] : g[0] = a /\ \A i \in 1..k : g[i] = f[i][g[i - 1]]
             T == {k \in 0..n : P(k)}
  <1>1. P(0)
    <2> DEFINE g == [i \in 0..0 |-> a]
    <2>1. g \in [0..0 -> S] /\ g[0] = a /\ \A i \in 1..0 : g[i] = f[i][g[i - 1]]
      OBVIOUS
    <2> QED
      BY <2>1
  <1>2. ASSUME NEW k \in 1..n, P(k - 1)
        PROVE  P(k)
    <2>1. PICK g \in [0..k - 1 -> S] : g[0] = a /\ \A i \in 1..k - 1 : g[i] = f[i][g[i - 1]]
      BY <1>2
    <2> DEFINE h == [i \in 0..k |-> IF i = k THEN f[k][g[k - 1]] ELSE g[i]]
    <2>2. g[k - 1] \in S
      BY k - 1 \in 0..k - 1
    <2>3. f[k][g[k - 1]] \in S
      BY <2>2
    <2>4. \A i \in 0..k : i = k \/ i \in 0..k - 1
      OBVIOUS
    <2>5. h \in [0..k -> S]
      BY <2>3, <2>4
    <2>6. \A i \in 0..k - 1 : i \in 0..k /\ i # k /\ h[i] = g[i]
      OBVIOUS
    <2>7. k \in 0..k /\ h[k] = f[k][g[k - 1]]
      OBVIOUS
    <2> HIDE DEF h
    <2>8. h[0] = a
      BY <2>1, <2>6, 0 \in 0..k - 1
    <2>9. ASSUME NEW i \in 1..k PROVE h[i] = f[i][h[i - 1]]
      <3>1. i - 1 \in 0..k - 1
        OBVIOUS
      <3>2. h[i - 1] = g[i - 1]
        BY <2>6, <3>1
      <3>3. CASE i = k
        BY <2>7, <3>2, <3>3
      <3>4. CASE i # k
        <4>1. i \in 1..k - 1 /\ i \in 0..k - 1
          BY <3>4
        <4> QED
          BY <2>1, <2>6, <3>2, <4>1
      <3> QED
        BY <3>3, <3>4
    <2> QED
      BY <2>5, <2>8, <2>9
  <1> HIDE DEF P
  <1>3. 0 \in T
    BY <1>1
  <1>4. \A i \in 1..n : i - 1 \in T => i \in T
    BY <1>2
  <1>5. \A i \in 0..n : i \in T
    <2> HIDE DEF T
    <2> QED
      BY <1>3, <1>4, UpTo
  <1>6. P(n)
    BY <1>5
  <1> QED
    BY <1>6 DEF P

-----------------------------------------------------------------------------
(* Lists of files                                                          *)

LEMMA PaksTyped ==
    /\ Paks \in Seq(Files) /\ None \notin Files /\ Len(Paks) \in Nat
    /\ \A i \in 1..Len(Paks) : Paks[i] \in Files
    /\ \A i, j \in 1..Len(Paks) : Paks[i] = Paks[j] => i = j
    /\ \A f \in Files : Size[f] \in Nat \ {0}
  BY DownloadAssumption DEF IsInjective

Distinct(l) == \A i, j \in 1..Len(l) : l[i] = l[j] => i = j

\* The lists of the missing files among the first.
Listing(known, g) ==
    g = [i \in 0..Len(Paks) |->
            IF i = 0 THEN <<>>
            ELSE IF Paks[i] \in known THEN g[i - 1] ELSE Append(g[i - 1], Paks[i])]

LEMMA ListingsExist ==
    ASSUME NEW known
    PROVE  \E g : Listing(known, g) /\ g \in [0..Len(Paks) -> Seq(Files)]
  <1> DEFINE n == Len(Paks)
             S == Seq(Files)
             f == [i \in 1..n |->
                      [l \in S |-> IF Paks[i] \in known THEN l ELSE Append(l, Paks[i])]]
  <1>1. n \in Nat /\ <<>> \in S
    BY PaksTyped
  <1>2. f \in [1..n -> [S -> S]]
    <2>1. \A i \in 1..n : \A l \in S : Append(l, Paks[i]) \in S
      BY PaksTyped
    <2> HIDE DEF S
    <2> QED
      BY <2>1
  <1>3. \A i \in 1..n : \A l \in S :
           f[i][l] = IF Paks[i] \in known THEN l ELSE Append(l, Paks[i])
    OBVIOUS
  <1> HIDE DEF f, S
  <1>g. PICK g : Stepped(n, S, <<>>, f, g)
    <2>1. Stepping(n, S, <<>>, f)
      BY <1>1, <1>2 DEF Stepping
    <2> QED
      BY <2>1, StepsExist
  <1>4. /\ g \in [0..n -> S] /\ g = [i \in 0..n |-> g[i]]
        /\ g[0] = <<>> /\ \A i \in 1..n : g[i] = f[i][g[i - 1]]
    BY <1>g DEF Stepped
  <1>5. ASSUME NEW i \in 0..n
        PROVE  g[i] = IF i = 0 THEN <<>>
                      ELSE IF Paks[i] \in known THEN g[i - 1] ELSE Append(g[i - 1], Paks[i])
    <2>1. CASE i = 0
      BY <1>4, <2>1
    <2>2. CASE i # 0
      <3>1. i \in 1..n /\ i - 1 \in 0..n
        BY <1>1, <2>2
      <3>2. g[i - 1] \in S
        BY <1>4, <3>1
      <3> QED
        BY <1>3, <1>4, <2>2, <3>1, <3>2
    <2> QED
      BY <2>1, <2>2
  <1>6. g = [i \in 0..n |->
                IF i = 0 THEN <<>>
                ELSE IF Paks[i] \in known THEN g[i - 1] ELSE Append(g[i - 1], Paks[i])]
    BY <1>4, <1>5
  <1> QED
    BY <1>4, <1>6, Zenon DEF Listing, S

\* Appending what a list has not keeps it distinct.
LEMMA DistinctAppend ==
    ASSUME NEW S, NEW l \in Seq(S), NEW x \in S, Distinct(l), \A i \in 1..Len(l) : l[i] # x
    PROVE  Distinct(Append(l, x))
  <1> DEFINE q == Append(l, x)
  <1>1. /\ Len(q) = Len(l) + 1 /\ q[Len(l) + 1] = x /\ Len(l) \in Nat
        /\ \A i \in 1..Len(l) : q[i] = l[i]
    OBVIOUS
  <1> HIDE DEF q
  <1>2. \A i \in 1..Len(q) : i = Len(l) + 1 \/ i \in 1..Len(l)
    BY <1>1
  <1>3. ASSUME NEW i \in 1..Len(q), NEW j \in 1..Len(q), q[i] = q[j] PROVE i = j
    BY <1>1, <1>2, <1>3 DEF Distinct
  <1> QED
    BY <1>3 DEF Distinct, q

\* The missing files are files, and none is listed twice.
LEMMA Compared ==
    ASSUME NEW known
    PROVE  FS_ComparePaks(known) \in Seq(Files) /\ Distinct(FS_ComparePaks(known))
  <1> DEFINE n == Len(Paks)
             m[i \in 0..Len(Paks)] ==
                 IF i = 0 THEN <<>>
                 ELSE IF Paks[i] \in known THEN m[i - 1] ELSE Append(m[i - 1], Paks[i])
  <1>1. FS_ComparePaks(known) = m[n]
    BY DEF FS_ComparePaks
  <1>2. Listing(known, m)
    <2>1. \E g : Listing(known, g)
      BY ListingsExist
    <2> QED
      BY <2>1, Zenon DEF Listing
  <1> HIDE DEF m
  <1>3. \A i \in 0..n : m[i] =
           IF i = 0 THEN <<>>
           ELSE IF Paks[i] \in known THEN m[i - 1] ELSE Append(m[i - 1], Paks[i])
    BY <1>2 DEF Listing
  <1> DEFINE P(i) == /\ m[i] \in Seq(Files) /\ Distinct(m[i])
                     /\ \A k \in 1..Len(m[i]) : \E j \in 1..i : m[i][k] = Paks[j]
             T == {i \in 0..n : P(i)}
  <1>4. n \in Nat
    BY PaksTyped
  <1>5. P(0)
    <2>1. m[0] = <<>>
      BY <1>3, <1>4
    <2> QED
      BY <2>1 DEF Distinct
  <1>6. ASSUME NEW i \in 1..n, P(i - 1)
        PROVE  P(i)
    <2>1. i \in 0..n /\ i # 0 /\ i - 1 \in 0..n
      BY <1>4
    <2>2. CASE Paks[i] \in known
      <3>1. m[i] = m[i - 1]
        BY <1>3, <2>1, <2>2
      <3>2. \A j \in 1..i - 1 : j \in 1..i
        OBVIOUS
      <3> QED
        BY <1>6, <3>1, <3>2
    <2>3. CASE Paks[i] \notin known
      <3> DEFINE l == m[i - 1]
                 x == Paks[i]
      <3>1. m[i] = Append(l, x)
        BY <1>3, <2>1, <2>3
      <3>2. l \in Seq(Files) /\ Distinct(l) /\ x \in Files
        BY <1>6, PaksTyped
      <3>3. \A k \in 1..Len(l) : \E j \in 1..i - 1 : l[k] = Paks[j]
        BY <1>6
      <3>4. \A j \in 1..i - 1 : j \in 1..n /\ j # i
        BY <1>4
      <3>5. \A k \in 1..Len(l) : l[k] # x
        BY <3>3, <3>4, PaksTyped
      <3> HIDE DEF l, x
      <3>6. Distinct(Append(l, x))
        BY <3>2, <3>5, DistinctAppend
      <3>7. /\ Append(l, x) \in Seq(Files) /\ Len(Append(l, x)) = Len(l) + 1 /\ Len(l) \in Nat
            /\ \A k \in 1..Len(l) : Append(l, x)[k] = l[k]
            /\ Append(l, x)[Len(l) + 1] = x
        BY <3>2
      <3>8. ASSUME NEW k \in 1..Len(Append(l, x))
            PROVE  \E j \in 1..i : Append(l, x)[k] = Paks[j]
        <4>1. CASE k \in 1..Len(l)
          <5>1. PICK j \in 1..i - 1 : l[k] = Paks[j]
            BY <3>3, <4>1
          <5>2. j \in 1..i
            OBVIOUS
          <5> QED
            BY <3>7, <4>1, <5>1, <5>2
        <4>2. CASE k = Len(l) + 1
          <5>1. i \in 1..i
            OBVIOUS
          <5> QED
            BY <3>7, <4>2, <5>1 DEF x
        <4> QED
          BY <3>7, <4>1, <4>2
      <3> QED
        BY <3>1, <3>6, <3>7, <3>8
    <2> QED
      BY <2>2, <2>3
  <1> HIDE DEF P
  <1>7. 0 \in T /\ \A i \in 1..n : i - 1 \in T => i \in T
    BY <1>4, <1>5, <1>6
  <1>8. \A i \in 0..n : i \in T
    <2> HIDE DEF T, n
    <2> QED
      BY <1>4, <1>7, UpTo
  <1>9. P(n)
    BY <1>4, <1>8
  <1> QED
    BY <1>1, <1>9 DEF P

-----------------------------------------------------------------------------
(* The commands the server executes                                        *)

SameWindow(s, t) ==
    /\ t.clientBlock = s.clientBlock /\ t.currentBlock = s.currentBlock
    /\ t.xmitBlock = s.xmitBlock /\ t.blocks = s.blocks

SameRedirect(s, t) ==
    t.bWWWDl = s.bWWWDl /\ t.bWWWing = s.bWWWing /\ t.bFallback = s.bFallback

SameFile(s, t) == t.downloadName = s.downloadName /\ t.download = s.download

Closed(s, t) == t.downloadName = None /\ t.download = FALSE /\ SameWindow(s, t)

\* What the server is left with when it has executed a command.
Effect(s, m, t) ==
    /\ m.cmd = "download" =>
          /\ t.state = s.state /\ t.gamestate = s.gamestate
          /\ t.downloadName = m.arg /\ t.download = FALSE
          /\ SameWindow(s, t) /\ SameRedirect(s, t)
    /\ m.cmd = "nextdl" /\ m.arg = s.clientBlock =>
          /\ t.state = s.state /\ t.gamestate = s.gamestate /\ SameRedirect(s, t)
          /\ IsEmpty(s.blocks[m.arg % MAX_DOWNLOAD_WINDOW]) => Closed(s, t)
          /\ ~IsEmpty(s.blocks[m.arg % MAX_DOWNLOAD_WINDOW]) =>
                /\ SameFile(s, t) /\ t.clientBlock = s.clientBlock + 1
                /\ t.currentBlock = s.currentBlock /\ t.xmitBlock = s.xmitBlock
                /\ t.blocks = s.blocks
    /\ m.cmd = "stopdl" =>
          t.state = s.state /\ t.gamestate = s.gamestate /\ Closed(s, t) /\ SameRedirect(s, t)
    /\ m.cmd = "donedl" =>
          /\ t.state = s.state /\ t.gamestate = TRUE
          /\ SameFile(s, t) /\ SameWindow(s, t) /\ SameRedirect(s, t)
    /\ m.cmd = "wwwdl_ack" /\ s.bWWWDl =>
          /\ t.state = s.state /\ t.gamestate = s.gamestate
          /\ SameFile(s, t) /\ SameWindow(s, t)
          /\ t.bWWWDl = s.bWWWDl /\ t.bWWWing = TRUE /\ t.bFallback = s.bFallback
    /\ m.cmd = "wwwdl_done" /\ s.bWWWDl /\ s.bWWWing =>
          /\ t.state = s.state /\ t.gamestate = s.gamestate /\ Closed(s, t)
          /\ t.bWWWDl = s.bWWWDl /\ t.bWWWing = FALSE /\ t.bFallback = s.bFallback
    /\ m.cmd = "wwwdl_fail" /\ s.bWWWDl /\ s.bWWWing =>
          /\ t.state = s.state /\ t.gamestate = TRUE /\ Closed(s, t)
          /\ t.bWWWDl = s.bWWWDl /\ t.bWWWing = FALSE /\ t.bFallback = TRUE

LEMMA CommandKinds ==
    ASSUME NEW m \in Commands
    PROVE  \/ m.cmd = "download" /\ m.arg \in Files
           \/ m.cmd = "nextdl" /\ m.arg \in Nat
           \/ m.cmd \in Plain /\ m.arg = None
  BY DEF Commands

LEMMA ClosedServer ==
    ASSUME NEW s \in Servers
    PROVE  LET t == SV_CloseDownload(s)
           IN  /\ t \in Servers /\ t.state = s.state /\ t.gamestate = s.gamestate
               /\ t.serverId = s.serverId /\ Closed(s, t) /\ SameRedirect(s, t)
  BY DEF SV_CloseDownload, Servers, Closed, SameWindow, SameRedirect, Named

LEMMA CommandExecuted ==
    ASSUME NEW s \in Servers, OpenHasName(s), NEW m \in Commands, s.state = "connected"
    PROVE  LET t == SV_ExecuteClientCommand(s, m)
           IN  /\ t \in Servers /\ OpenHasName(t) /\ t.serverId = s.serverId
               /\ Effect(s, m, t)
  <1> DEFINE x == m.cmd = "nextdl"
             u == [s EXCEPT !.nextdl = x]
             v == SV_CloseDownload(u)
             t == SV_ExecuteClientCommand(s, m)
  <1> SUFFICES t \in Servers /\ OpenHasName(t) /\ t.serverId = s.serverId /\ Effect(s, m, t)
    OBVIOUS
  <1>1. x \in BOOLEAN
    OBVIOUS
  <1> HIDE DEF x
  <1>2. /\ u \in Servers /\ u.state = s.state /\ u.gamestate = s.gamestate
        /\ u.serverId = s.serverId
        /\ SameFile(s, u) /\ SameWindow(s, u) /\ SameRedirect(s, u)
    BY <1>1 DEF Servers, SameFile, SameWindow, SameRedirect
  <1>t. t = CASE m.cmd = "download" -> SV_BeginDownload_f(u, m.arg)
              [] m.cmd = "nextdl"   -> SV_NextDownload_f(u, m.arg)
              [] m.cmd = "stopdl"   -> SV_CloseDownload(u)
              [] m.cmd = "donedl"   -> SV_SendClientGameState(u)
              [] OTHER              -> SV_WWWDownload_f(u, m.cmd)
    BY DEF SV_ExecuteClientCommand, x
  <1> HIDE DEF u, t
  <1>3. /\ v \in Servers /\ v.state = s.state /\ v.gamestate = s.gamestate
        /\ v.serverId = s.serverId /\ Closed(s, v) /\ SameRedirect(s, v) /\ v.download = FALSE
    BY <1>2, ClosedServer DEF Closed, SameWindow, SameRedirect
  <1>4. CASE m.cmd = "download"
    <2>1. t = [v EXCEPT !.downloadName = m.arg]
      BY <1>t, <1>4 DEF SV_BeginDownload_f
    <2>2. m.arg \in Named
      BY <1>4, CommandKinds DEF Plain, Named
    <2> HIDE DEF v
    <2>3. /\ t \in Servers /\ t.state = v.state /\ t.gamestate = v.gamestate
          /\ t.serverId = v.serverId /\ t.downloadName = m.arg /\ t.download = v.download
          /\ SameWindow(v, t) /\ SameRedirect(v, t)
      BY <1>3, <2>1, <2>2 DEF Servers, SameWindow, SameRedirect
    <2> QED
      BY <1>3, <1>4, <2>3
         DEF Effect, OpenHasName, Closed, SameWindow, SameRedirect
  <1>5. CASE m.cmd = "nextdl"
    <2>1. t = SV_NextDownload_f(u, m.arg) /\ m.arg \in Nat
      BY <1>t, <1>5, CommandKinds DEF Plain
    <2>2. u.clientBlock = s.clientBlock /\ u.blocks = s.blocks
      BY <1>2 DEF SameWindow
    <2>3. CASE m.arg # s.clientBlock
      <3>1. t = [u EXCEPT !.state = "dropped"]
        BY <2>1, <2>2, <2>3 DEF SV_NextDownload_f, SV_DropClient
      <3>2. t \in Servers /\ t.serverId = u.serverId /\ SameFile(u, t)
        BY <1>2, <3>1 DEF Servers, SameFile
      <3> QED
        BY <1>2, <1>5, <2>3, <3>2 DEF Effect, OpenHasName, SameFile
    <2>4. CASE m.arg = s.clientBlock /\ IsEmpty(s.blocks[m.arg % MAX_DOWNLOAD_WINDOW])
      <3>1. t = v
        BY <2>1, <2>2, <2>4 DEF SV_NextDownload_f
      <3> HIDE DEF v
      <3> QED
        BY <1>3, <1>5, <2>4, <3>1 DEF Effect, OpenHasName
    <2>5. CASE m.arg = s.clientBlock /\ ~IsEmpty(s.blocks[m.arg % MAX_DOWNLOAD_WINDOW])
      <3>1. t = [u EXCEPT !.clientBlock = @ + 1]
        BY <2>1, <2>2, <2>5 DEF SV_NextDownload_f
      <3>2. u.clientBlock + 1 \in Nat
        <4>1. s.clientBlock \in Nat
          BY DEF Servers
        <4> QED
          BY <2>2, <4>1
      <3>3. /\ t \in Servers /\ t.state = u.state /\ t.serverId = u.serverId
            /\ t.gamestate = u.gamestate /\ SameFile(u, t) /\ SameRedirect(u, t)
            /\ t.clientBlock = u.clientBlock + 1 /\ t.currentBlock = u.currentBlock
            /\ t.xmitBlock = u.xmitBlock /\ t.blocks = u.blocks
        BY <1>2, <3>1, <3>2 DEF Servers, SameFile, SameRedirect
      <3> QED
        BY <1>2, <1>5, <2>5, <3>3 DEF Effect, OpenHasName, SameFile, SameWindow, SameRedirect
    <2> QED
      BY <2>3, <2>4, <2>5
  <1>6. CASE m.cmd = "stopdl"
    <2>1. t = v
      BY <1>t, <1>6
    <2> HIDE DEF v
    <2> QED
      BY <1>3, <1>6, <2>1 DEF Effect, OpenHasName
  <1>7. CASE m.cmd = "donedl"
    <2>1. t = [u EXCEPT !.gamestate = TRUE]
      BY <1>t, <1>7 DEF SV_SendClientGameState
    <2>2. /\ t \in Servers /\ t.state = u.state /\ t.serverId = u.serverId
          /\ t.gamestate = TRUE /\ SameFile(u, t) /\ SameWindow(u, t) /\ SameRedirect(u, t)
      BY <1>2, <2>1 DEF Servers, SameFile, SameWindow, SameRedirect
    <2> QED
      BY <1>2, <1>7, <2>2 DEF Effect, OpenHasName, SameFile, SameWindow, SameRedirect
  <1>8. CASE m.cmd \in {"wwwdl_ack", "wwwdl_done", "wwwdl_fail"}
    <2>1. t = SV_WWWDownload_f(u, m.cmd)
      BY <1>t, <1>8
    <2>2. u.bWWWDl = s.bWWWDl /\ u.bWWWing = s.bWWWing /\ s.bWWWDl \in BOOLEAN
          /\ s.bWWWing \in BOOLEAN
      BY <1>2 DEF SameRedirect, Servers
    <2>3. CASE ~s.bWWWDl \/ (m.cmd # "wwwdl_ack" /\ ~s.bWWWing)
      <3>1. t = [u EXCEPT !.state = "dropped"]
        BY <2>1, <2>2, <2>3 DEF SV_WWWDownload_f, SV_DropClient
      <3>2. t \in Servers /\ t.serverId = u.serverId /\ SameFile(u, t)
        BY <1>2, <3>1 DEF Servers, SameFile
      <3> QED
        BY <1>2, <1>8, <2>3, <3>2 DEF Effect, OpenHasName, SameFile
    <2>4. CASE s.bWWWDl /\ m.cmd = "wwwdl_ack"
      <3>1. t = [u EXCEPT !.bWWWing = TRUE]
        BY <2>1, <2>2, <2>4 DEF SV_WWWDownload_f
      <3>2. /\ t \in Servers /\ t.state = u.state /\ t.serverId = u.serverId
            /\ t.gamestate = u.gamestate /\ SameFile(u, t) /\ SameWindow(u, t)
            /\ t.bWWWDl = u.bWWWDl /\ t.bWWWing = TRUE /\ t.bFallback = u.bFallback
        BY <1>2, <3>1 DEF Servers, SameFile, SameWindow
      <3> QED
        BY <1>2, <2>4, <3>2 DEF Effect, OpenHasName, SameFile, SameWindow, SameRedirect
    <2>5. CASE s.bWWWDl /\ s.bWWWing /\ m.cmd = "wwwdl_done"
      <3>1. t = [v EXCEPT !.bWWWing = FALSE]
        BY <2>1, <2>2, <2>5 DEF SV_WWWDownload_f
      <3> HIDE DEF v
      <3>2. /\ t \in Servers /\ t.state = v.state /\ t.serverId = v.serverId
            /\ t.gamestate = v.gamestate /\ SameFile(v, t) /\ SameWindow(v, t)
            /\ t.bWWWDl = v.bWWWDl /\ t.bWWWing = FALSE /\ t.bFallback = v.bFallback
        BY <1>3, <3>1 DEF Servers, SameFile, SameWindow
      <3> QED
        BY <1>3, <2>5, <3>2 DEF Effect, OpenHasName, Closed, SameFile, SameWindow, SameRedirect
    <2>6. CASE s.bWWWDl /\ s.bWWWing /\ m.cmd = "wwwdl_fail"
      <3>1. t = SV_SendClientGameState([v EXCEPT !.bWWWing = FALSE, !.bFallback = TRUE])
        BY <2>1, <2>2, <2>6 DEF SV_WWWDownload_f
      <3>2. t = [[v EXCEPT !.bWWWing = FALSE, !.bFallback = TRUE] EXCEPT !.gamestate = TRUE]
        BY <3>1 DEF SV_SendClientGameState
      <3> HIDE DEF v
      <3>3. /\ t \in Servers /\ t.state = v.state /\ t.serverId = v.serverId
            /\ t.gamestate = TRUE /\ SameFile(v, t) /\ SameWindow(v, t)
            /\ t.bWWWDl = v.bWWWDl /\ t.bWWWing = FALSE /\ t.bFallback = TRUE
        BY <1>3, <3>2 DEF Servers, SameFile, SameWindow
      <3> QED
        BY <1>3, <2>6, <3>3 DEF Effect, OpenHasName, Closed, SameFile, SameWindow, SameRedirect
    <2> QED
      BY <1>8, <2>2, <2>3, <2>4, <2>5, <2>6
  <1> QED
    BY <1>4, <1>5, <1>6, <1>7, <1>8, CommandKinds DEF Plain

\* What a step changed in no way the protocol knows of: all but the commands.
SameClient(c, d) ==
    /\ d.state = c.state /\ d.downloadName = c.downloadName
    /\ d.downloadList = c.downloadList /\ d.downloadRestart = c.downloadRestart
    /\ d.downloadBlock = c.downloadBlock /\ d.open = c.open /\ d.temp = c.temp
    /\ d.bWWWDl = c.bWWWDl /\ d.fetching = c.fetching

\* The first of the commands is gone.
Follows(c, d) ==
    /\ SameClient(c, d) /\ Len(c.commands) > 0
    /\ Len(d.commands) = Len(c.commands) - 1
    /\ \A i \in 1..Len(d.commands) : d.commands[i] = c.commands[i + 1]

LEMMA Remaining ==
    ASSUME NEW c \in Clients, NEW d \in Clients, Follows(c, d)
    PROVE  /\ Len(c.commands) \in Nat /\ Len(d.commands) \in Nat
           /\ 1 \in 1..Len(c.commands)
           /\ \A i \in 1..Len(d.commands) :
                 /\ i + 1 \in 1..Len(c.commands) /\ d.commands[i] = c.commands[i + 1]
                 /\ i \in Nat /\ i + 1 # 1
                 /\ i + 1 = 2 <=> i = 1
                 /\ i + 1 = Len(c.commands) <=> i = Len(d.commands)
           /\ Len(d.commands) = 0 <=> Len(c.commands) = 1
  <1>1. c.commands \in Seq(Commands) /\ d.commands \in Seq(Commands)
    BY DEF Clients
  <1> QED
    BY <1>1 DEF Follows

\* Where only the first command is dealt with, the request keeps its place.
LEMMA AskedStill ==
    ASSUME NEW c \in Clients, NEW d \in Clients, Follows(c, d)
    PROVE  /\ Asked(c) /\ c.commands[1].cmd # "download" => Asked(d)
           /\ Len(c.commands) > 1 => c.commands[Len(c.commands)] = d.commands[Len(d.commands)]
  <1>1. /\ Len(c.commands) \in Nat /\ Len(d.commands) \in Nat
        /\ Len(d.commands) = Len(c.commands) - 1
        /\ \A i \in 1..Len(d.commands) : d.commands[i] = c.commands[i + 1]
    BY Remaining DEF Follows
  <1>2. ASSUME Len(c.commands) > 1
        PROVE  /\ Len(d.commands) > 0
               /\ c.commands[Len(c.commands)] = d.commands[Len(d.commands)]
    BY <1>1, <1>2
  <1> QED
    BY <1>1, <1>2 DEF Asked

\* What "wwwdl_fail" is the answer to is among the commands or was executed.
LEMMA FailedFirst ==
    ASSUME NEW s, NEW c \in Clients, NEW web, Len(c.commands) > 0, Failed(s, c),
           \A i \in 1..Len(c.commands) : CommandInv(s, c, web, i)
    PROVE  \/ c.commands[1].cmd = "wwwdl_ack" /\ Len(c.commands) = 2
           \/ c.commands[1].cmd = "wwwdl_fail" /\ Len(c.commands) = 1
  <1>1. c.commands \in Seq(Commands)
    BY DEF Clients
  <1> DEFINE n == Len(c.commands)
  <1>2. n \in Nat /\ n > 0 /\ n # 0 /\ n \in 1..n
    BY <1>1
  <1> HIDE DEF n
  <1>3. c.commands[n].cmd = "wwwdl_fail"
    BY <1>2 DEF Failed, n
  <1>4. Answered(s, c, n)
    BY <1>2, <1>3 DEF CommandInv, n
  <1>5. CASE n = 1
    BY <1>3, <1>5 DEF n
  <1>6. CASE n # 1
    BY <1>4, <1>6 DEF Answered, n
  <1> QED
    BY <1>5, <1>6

\* A command that closes the file and leaves the client waiting for what it has asked for.
Closing(s, c, t) ==
    /\ t.state = s.state /\ t.gamestate = s.gamestate /\ Closed(s, t) /\ ~t.bWWWing
    /\ c.commands[1].cmd \in {"nextdl", "stopdl", "wwwdl_done"}
    /\ \A i \in 2..Len(c.commands) : c.commands[i].cmd # "nextdl"
    /\ ~Served(s, c)

LEMMA ClosingExecuted ==
    ASSUME NEW s \in Servers, OpenHasName(s), NEW t \in Servers,
           NEW c \in Clients, NEW d \in Clients, NEW w \in Seq(Messages), NEW web \in Mirrors,
           Protocol(s, c, w, web), Follows(c, d), Closing(s, c, t)
    PROVE  Protocol(t, d, w, web)
  <1> DEFINE n == Len(c.commands)
             k == Len(d.commands)
  <1>1. /\ n \in Nat /\ k \in Nat /\ 1 \in 1..n
        /\ \A i \in 1..k : /\ i + 1 \in 1..n /\ d.commands[i] = c.commands[i + 1]
                           /\ i \in Nat /\ i + 1 # 1 /\ (i + 1 = 2 <=> i = 1)
                           /\ (i + 1 = n <=> i = k)
        /\ SameClient(c, d)
    BY Remaining DEF Follows
  <1>2. /\ t.state = s.state /\ t.gamestate = s.gamestate /\ Closed(s, t) /\ t.bWWWing = FALSE
        /\ c.commands[1].cmd \in {"nextdl", "stopdl", "wwwdl_done"}
        /\ \A i \in 1..k : d.commands[i].cmd # "nextdl"
    <2>1. \A i \in 1..k : i + 1 \in 2..n
      BY <1>1
    <2>2. t.bWWWing \in BOOLEAN
      BY DEF Servers
    <2> QED
      BY <1>1, <2>1, <2>2 DEF Closing
  <1>3. t.downloadName = None /\ t.download = FALSE /\ SameWindow(s, t)
    BY <1>2 DEF Closed
  <1>4. \A i \in 1..n : CommandInv(s, c, web, i)
    BY DEF Protocol
  <1>5. c.downloadName # None => Asked(c) /\ Asked(d) /\ c.downloadName # s.downloadName
    <2> SUFFICES ASSUME c.downloadName # None
                 PROVE  Asked(c) /\ Asked(d) /\ c.downloadName # s.downloadName
      OBVIOUS
    <2>1. Asked(c) \/ Served(s, c) \/ Fetching(s, c) \/ Failed(s, c) \/ Skipped(s, c)
      BY DEF Protocol, ClientInv
    <2>n. n > 0 /\ n # 0 /\ n \in 1..n
      BY <1>1
    <2>2. ~Served(s, c) /\ ~Fetching(s, c) /\ ~Skipped(s, c)
      BY <1>2, <2>n DEF Closing, Fetching, Skipped
    <2>3. ~Failed(s, c)
      <3>1. ASSUME Failed(s, c) PROVE c.commands[1].cmd \in {"wwwdl_ack", "wwwdl_fail"}
        BY <1>4, <2>n, <3>1, FailedFirst
      <3> QED
        BY <1>2, <3>1
    <2>4. Asked(c)
      BY <2>1, <2>2, <2>3
    <2>5. RequestInv(s, c, n)
      <3>1. CommandInv(s, c, web, n)
        BY <1>4, <2>n
      <3> QED
        BY <2>4, <3>1 DEF Asked, CommandInv
    <2> QED
      BY <1>2, <2>4, <2>5, AskedStill DEF RequestInv
  <1>6. ASSUME NEW i \in 1..k, AfterClose(s, c, i + 1)
        PROVE  AfterClose(t, d, i)
    <2>1. CASE i = 1
      BY <1>3, <2>1 DEF AfterClose
    <2>2. CASE i # 1
      <3>1. i - 1 \in 1..k /\ (i - 1) + 1 = i
        BY <1>1, <2>2
      <3>2. (i + 1) - 1 = i
        BY <1>1
      <3>3. Closes(s, c.commands[i])
        BY <1>1, <1>6, <3>2 DEF AfterClose
      <3>4. d.commands[i - 1] = c.commands[i] /\ d.commands[i - 1].cmd # "nextdl"
        BY <1>1, <1>2, <3>1
      <3> QED
        BY <2>2, <3>3, <3>4 DEF AfterClose, Closes
    <2> QED
      BY <2>1, <2>2
  <1>7. t.state # "dropped" /\ WindowInv(t)
    <2>1. s.state # "dropped" /\ WindowInv(s)
      BY DEF Protocol
    <2> QED
      BY <1>2, <1>3, <2>1 DEF WindowInv, SameWindow
  <1>8. ASSUME NEW i \in 1..k PROVE CommandInv(t, d, web, i)
    <2>1. CommandInv(s, c, web, i + 1) /\ d.commands[i] = c.commands[i + 1]
          /\ i + 1 # 1 /\ (i + 1 = 2 <=> i = 1) /\ (i + 1 = n <=> i = k)
      BY <1>1, <1>4
    <2>2. d.commands[i].cmd # "nextdl"
      BY <1>2
    <2>3. ASSUME d.commands[i].cmd = "download" PROVE RequestInv(t, d, i)
      <3>1. RequestInv(s, c, i + 1)
        BY <2>1, <2>3 DEF CommandInv
      <3>2. d.commands[i] \in Commands
        BY DEF Clients
      <3>3. d.commands[i].arg \in Files
        BY <2>3, <3>2, CommandKinds DEF Plain
      <3>4. None \notin Files
        BY DownloadAssumption
      <3> QED
        BY <1>1, <1>3, <1>6, <2>1, <3>1, <3>3, <3>4 DEF RequestInv, SameClient
    <2>4. d.commands[i].cmd # "wwwdl_ack"
      BY <2>1 DEF CommandInv, AckInv
    <2>5. d.commands[i].cmd \notin {"wwwdl_done", "wwwdl_fail"}
      BY <1>2, <2>1 DEF CommandInv, Answered
    <2>6. ASSUME d.commands[i].cmd = "donedl" PROVE DonedlInv(t, d, i)
      <3>1. DonedlInv(s, c, i + 1)
        BY <2>1, <2>6 DEF CommandInv
      <3>2. \A j \in i + 1..k : j \in 1..k /\ j + 1 \in (i + 1) + 1..n
        BY <1>1
      <3>3. \A j \in i + 1..k : d.commands[j].cmd = "stopdl"
        <4>1. \A j \in (i + 1) + 1..n : c.commands[j].cmd = "stopdl"
          BY <3>1 DEF DonedlInv, n
        <4>2. \A j \in 1..k : d.commands[j] = c.commands[j + 1]
          BY <1>1
        <4> QED
          BY <3>2, <4>1, <4>2, Zenon
      <3>4. d.downloadName = None /\ AfterClose(t, d, i)
        BY <1>1, <1>6, <3>1 DEF DonedlInv, SameClient
      <3> QED
        BY <3>3, <3>4 DEF DonedlInv, k
    <2> QED
      BY <2>2, <2>3, <2>4, <2>5, <2>6 DEF CommandInv
  <1>9. AnswerInv(t, d)
    BY <1>2 DEF AnswerInv
  <1>10. GamestateInv(t, d, w)
    <2>1. GamestateInv(s, c, w)
      BY DEF Protocol
    <2>2. Coming(t, w) = Coming(s, w)
      BY <1>2 DEF Coming
    <2> QED
      BY <1>1, <1>2, <1>3, <2>1, <2>2 DEF GamestateInv
  <1>11. ClientInv(t, d)
    <2>1. ClientInv(s, c)
      BY DEF Protocol
    <2> QED
      BY <1>1, <1>5, <2>1 DEF ClientInv, SameClient
  <1>12. ListInv(t, d)
    <2>1. ListInv(s, c)
      BY DEF Protocol
    <2>2. c.downloadList \in Seq(Files) /\ None \notin Files
      BY DownloadAssumption DEF Clients
    <2>3. Unasked(d, None)
      BY <1>1, <2>2 DEF Unasked, SameClient
    <2> QED
      BY <1>1, <1>3, <2>1, <2>3 DEF ListInv, Unasked, SameClient
  <1>13. ASSUME NEW i \in 1..Len(w) PROVE MessageInv(t, d, web, w[i])
    <2>1. RedirectInv(s, c, web, w[i]) /\ BlockInv(s, c, w[i])
      BY DEF Protocol, MessageInv
    <2>2. RedirectInv(t, d, web, w[i])
      BY <1>1, <2>1 DEF RedirectInv, Unasked, SameClient
    <2>3. BlockInv(t, d, w[i])
      <3>1. None \notin Files
        BY DownloadAssumption
      <3> QED
        BY <1>1, <1>5, <2>1, <3>1 DEF BlockInv, Unasked, SameClient
    <2> QED
      BY <2>2, <2>3 DEF MessageInv
  <1> QED
    BY <1>7, <1>8, <1>9, <1>10, <1>11, <1>12, <1>13 DEF Protocol

\* The number of the block acknowledged is the one expected, and of the window.
LEMMA Acknowledged ==
    ASSUME NEW s \in Servers, OpenHasName(s), NEW c \in Clients, NEW web,
           WindowInv(s), Len(c.commands) > 0, CommandInv(s, c, web, 1),
           c.commands[1].cmd = "nextdl"
    PROVE  LET b == s.clientBlock
           IN  /\ c.commands[1].arg = b /\ b < s.currentBlock /\ b < Half /\ s.download
               /\ s.downloadName \in Files /\ ~s.bWWWing
               /\ b <= Size[s.downloadName] /\ s.currentBlock <= Size[s.downloadName] + 1
               /\ IsEmpty(s.blocks[b % MAX_DOWNLOAD_WINDOW]) <=> b = Size[s.downloadName]
  <1> DEFINE b == s.clientBlock
  <1>1. NextdlInv(s, c, 1)
    BY DEF CommandInv
  <1>2. b \in Nat /\ s.currentBlock \in Nat
    BY DEF Servers
  <1>3. c.commands[1].arg = b /\ b < Half /\ b < s.currentBlock /\ s.download
    <2>1. b + 1 - 1 = b
      BY <1>2
    <2> QED
      BY <1>1, <2>1 DEF NextdlInv
  <1>4. s.downloadName \in Files /\ None \notin Files
    <2>1. s.downloadName \in Named
      BY DEF Servers
    <2> QED
      BY <1>3, <2>1, DownloadAssumption DEF Named, OpenHasName
  <1>5. OpenInv(s) /\ s.currentBlock <= b + MAX_DOWNLOAD_WINDOW
    BY <1>3 DEF WindowInv
  <1>6. PlaceInv(s, b)
    <2>1. b \in 0..s.currentBlock - 1
      BY <1>2, <1>3
    <2> QED
      BY <1>5, <2>1 DEF OpenInv
  <1>7. s.blocks[b % MAX_DOWNLOAD_WINDOW] = Block(s.downloadName, b)
    BY <1>5, <1>6 DEF PlaceInv
  <1>8. IsEmpty(s.blocks[b % MAX_DOWNLOAD_WINDOW]) <=> b = Size[s.downloadName]
    BY <1>4, <1>7 DEF IsEmpty, Block
  <1> QED
    BY <1>3, <1>4, <1>5, <1>8 DEF WindowInv, OpenInv

\* The acknowledgement of a block that is not the last.
LEMMA NextdlExecuted ==
    ASSUME NEW s \in Servers, OpenHasName(s), NEW t \in Servers,
           NEW c \in Clients, NEW d \in Clients, NEW w \in Seq(Messages), NEW web \in Mirrors,
           Protocol(s, c, w, web), Follows(c, d), c.commands[1].cmd = "nextdl",
           s.clientBlock # Size[s.downloadName],
           t.state = s.state, t.gamestate = s.gamestate, SameRedirect(s, t), SameFile(s, t),
           t.clientBlock = s.clientBlock + 1, t.currentBlock = s.currentBlock,
           t.xmitBlock = s.xmitBlock, t.blocks = s.blocks
    PROVE  Protocol(t, d, w, web)
  <1> DEFINE n == Len(c.commands)
             k == Len(d.commands)
  <1>1. /\ n \in Nat /\ k \in Nat /\ 1 \in 1..n /\ n > 0 /\ n # 0 /\ k = n - 1
        /\ \A i \in 1..k : /\ i + 1 \in 1..n /\ d.commands[i] = c.commands[i + 1]
                           /\ i \in Nat /\ i + 1 # 1 /\ (i + 1 = 2 <=> i = 1)
                           /\ (i + 1 = n <=> i = k)
        /\ SameClient(c, d)
    BY Remaining DEF Follows
  <1>2. \A i \in 1..n : CommandInv(s, c, web, i)
    BY DEF Protocol
  <1>3. s.state # "dropped" /\ WindowInv(s)
    BY DEF Protocol
  <1>4. /\ c.commands[1].arg = s.clientBlock /\ s.clientBlock < s.currentBlock
        /\ s.clientBlock < Half /\ s.download /\ s.downloadName \in Files /\ ~s.bWWWing
        /\ s.clientBlock <= Size[s.downloadName]
    BY <1>1, <1>2, <1>3, Acknowledged
  <1>n. /\ s.clientBlock \in Nat /\ s.currentBlock \in Nat /\ s.xmitBlock \in Nat
        /\ Half \in Nat /\ Size[s.downloadName] \in Nat /\ MAX_DOWNLOAD_WINDOW \in Nat
    <2>1. s.clientBlock \in Nat /\ s.currentBlock \in Nat /\ s.xmitBlock \in Nat
      BY DEF Servers
    <2>2. Half \in Nat /\ MAX_DOWNLOAD_WINDOW \in Nat
      BY HalfType, WindowType
    <2>3. Size[s.downloadName] \in Nat
      BY <1>4, DownloadAssumption
    <2> QED
      BY <2>1, <2>2, <2>3
  <1>5. /\ t.downloadName = s.downloadName /\ t.download = s.download
        /\ t.bWWWDl = s.bWWWDl /\ t.bWWWing = s.bWWWing /\ t.bFallback = s.bFallback
    BY DEF SameFile, SameRedirect
  <1>6. ASSUME NEW i \in 1..k, AfterClose(s, c, i + 1)
        PROVE  AfterClose(t, d, i)
    <2>1. i # 1
      <3> SUFFICES ASSUME i = 1 PROVE FALSE
        OBVIOUS
      <3>1. Closes(s, c.commands[1])
        BY <1>1, <1>6 DEF AfterClose
      <3> QED
        BY <1>4, <3>1 DEF Closes
    <2>2. i - 1 \in 1..k /\ (i - 1) + 1 = i /\ (i + 1) - 1 = i
      BY <1>1, <2>1
    <2>3. Closes(s, c.commands[i])
      BY <1>1, <1>6, <2>2 DEF AfterClose
    <2>4. d.commands[i - 1] = c.commands[i]
      BY <1>1, <2>2
    <2> QED
      BY <1>5, <2>1, <2>3, <2>4 DEF AfterClose, Closes
  <1>7. t.state # "dropped" /\ WindowInv(t)
    <2>1. OpenInv(t)
      BY <1>3, <1>4, <1>5, <1>n DEF WindowInv, OpenInv, PlaceInv
    <2>2. /\ t.clientBlock <= t.currentBlock /\ t.xmitBlock <= t.currentBlock
          /\ t.currentBlock <= t.clientBlock + MAX_DOWNLOAD_WINDOW
      BY <1>3, <1>4, <1>n DEF WindowInv
    <2> QED
      BY <1>3, <1>4, <1>5, <2>1, <2>2 DEF WindowInv
  <1>8. ASSUME NEW i \in 1..k PROVE CommandInv(t, d, web, i)
    <2>1. CommandInv(s, c, web, i + 1) /\ d.commands[i] = c.commands[i + 1]
          /\ i + 1 # 1 /\ (i + 1 = 2 <=> i = 1) /\ (i + 1 = n <=> i = k)
      BY <1>1, <1>2
    <2>2. ASSUME d.commands[i].cmd = "nextdl" PROVE NextdlInv(t, d, i)
      <3>1. NextdlInv(s, c, i + 1)
        BY <2>1, <2>2 DEF CommandInv
      <3>2. \A j \in 1..i - 1 : j \in 1..k /\ j + 1 \in 1..(i + 1) - 1
        BY <1>1
      <3>3. \A j \in 1..i - 1 : d.commands[j].cmd = "nextdl"
        BY <1>1, <3>1, <3>2 DEF NextdlInv
      <3>4. s.clientBlock + (i + 1) - 1 = (s.clientBlock + 1) + i - 1
        BY <1>1, <1>n
      <3> QED
        BY <1>5, <2>1, <3>1, <3>3, <3>4 DEF NextdlInv
    <2>3. ASSUME d.commands[i].cmd = "download" PROVE RequestInv(t, d, i)
      <3>1. RequestInv(s, c, i + 1)
        BY <2>1, <2>3 DEF CommandInv
      <3> QED
        BY <1>1, <1>5, <1>6, <2>1, <3>1 DEF RequestInv, SameClient
    <2>4. d.commands[i].cmd # "wwwdl_ack"
      BY <2>1 DEF CommandInv, AckInv
    <2>5. d.commands[i].cmd \notin {"wwwdl_done", "wwwdl_fail"}
      BY <2>1 DEF CommandInv, Answered
    <2>6. ASSUME d.commands[i].cmd = "donedl" PROVE DonedlInv(t, d, i)
      <3>1. DonedlInv(s, c, i + 1)
        BY <2>1, <2>6 DEF CommandInv
      <3>2. \A j \in i + 1..k : j \in 1..k /\ j + 1 \in (i + 1) + 1..n
        BY <1>1
      <3>3. \A j \in i + 1..k : d.commands[j].cmd = "stopdl"
        <4>1. \A j \in (i + 1) + 1..n : c.commands[j].cmd = "stopdl"
          BY <3>1 DEF DonedlInv, n
        <4>2. \A j \in 1..k : d.commands[j] = c.commands[j + 1]
          BY <1>1
        <4> QED
          BY <3>2, <4>1, <4>2, Zenon
      <3>4. d.downloadName = None /\ AfterClose(t, d, i)
        BY <1>1, <1>6, <3>1 DEF DonedlInv, SameClient
      <3> QED
        BY <3>3, <3>4 DEF DonedlInv, k
    <2> QED
      BY <2>2, <2>3, <2>4, <2>5, <2>6 DEF CommandInv
  <1>9. AnswerInv(t, d)
    BY <1>4, <1>5 DEF AnswerInv
  <1>10. GamestateInv(t, d, w)
    <2>1. GamestateInv(s, c, w)
      BY DEF Protocol
    <2>2. Coming(t, w) = Coming(s, w)
      BY DEF Coming
    <2>3. ~Coming(s, w)
      BY <1>1, <2>1 DEF GamestateInv
    <2> QED
      BY <2>1, <2>2, <2>3 DEF GamestateInv
  <1>11. ClientInv(t, d)
    <2>1. ClientInv(s, c)
      BY DEF Protocol
    <2>2. Asked(c) => Asked(d)
      BY AskedStill
    <2>3. ASSUME Served(s, c) PROVE Served(t, d)
      <3>1. s.clientBlock + n = t.clientBlock + k
        <4>1. n \in Nat /\ k = n - 1 /\ s.clientBlock \in Nat
          BY <1>1, <1>n
        <4> HIDE DEF n, k
        <4> QED
          BY <4>1
      <3>2. \A i \in 1..k : d.commands[i].cmd = "nextdl"
        BY <1>1, <2>3 DEF Served
      <3>3. d.downloadBlock = (IF t.download THEN t.clientBlock + k ELSE 0)
        BY <1>1, <1>4, <1>5, <2>3, <3>1 DEF Served, SameClient
      <3>4. Collected(d)
        BY <1>1, <2>3 DEF Served, Collected, SameClient
      <3> QED
        BY <1>1, <1>5, <2>3, <3>2, <3>3, <3>4 DEF Served, SameClient
    <2>4. ~Fetching(s, c) /\ ~Skipped(s, c)
      BY <1>1 DEF Fetching, Skipped
    <2>5. ~Failed(s, c)
      <3>1. ASSUME Failed(s, c) PROVE c.commands[1].cmd \in {"wwwdl_ack", "wwwdl_fail"}
        BY <1>1, <1>2, <3>1, FailedFirst
      <3> QED
        BY <3>1
    <2> QED
      BY <1>1, <2>1, <2>2, <2>3, <2>4, <2>5 DEF ClientInv, SameClient
  <1>12. ListInv(t, d)
    <2>1. ListInv(s, c)
      BY DEF Protocol
    <2> QED
      BY <1>1, <1>5, <2>1 DEF ListInv, Unasked, SameClient
  <1>13. ASSUME NEW i \in 1..Len(w) PROVE MessageInv(t, d, web, w[i])
    <2>1. RedirectInv(s, c, web, w[i]) /\ BlockInv(s, c, w[i])
      BY DEF Protocol, MessageInv
    <2>2. RedirectInv(t, d, web, w[i])
      BY <1>1, <2>1 DEF RedirectInv, Unasked, SameClient
    <2>3. BlockInv(t, d, w[i])
      BY <1>1, <1>5, <2>1 DEF BlockInv, Numbered, Unasked, SameClient
    <2> QED
      BY <2>2, <2>3 DEF MessageInv
  <1> QED
    BY <1>7, <1>8, <1>9, <1>10, <1>11, <1>12, <1>13 DEF Protocol

\* The request for a file: from now on the server sends it.
LEMMA DownloadExecuted ==
    ASSUME NEW s \in Servers, OpenHasName(s), NEW t \in Servers,
           NEW c \in Clients, NEW d \in Clients, NEW w \in Seq(Messages), NEW web \in Mirrors,
           Protocol(s, c, w, web), Follows(c, d), c.commands[1].cmd = "download",
           t.state = s.state, t.gamestate = s.gamestate, SameWindow(s, t), SameRedirect(s, t),
           t.downloadName = c.commands[1].arg, t.download = FALSE
    PROVE  Protocol(t, d, w, web)
  <1>1. /\ SameClient(c, d) /\ 1 \in 1..Len(c.commands) /\ Len(c.commands) > 0
        /\ c.commands[1] \in Commands
    <2>1. 1 \in 1..Len(c.commands) /\ c.commands \in Seq(Commands)
      BY Remaining DEF Clients
    <2> QED
      BY <2>1 DEF Follows
  <1>2. RequestInv(s, c, 1)
    BY <1>1 DEF Protocol, CommandInv
  <1>3. Len(c.commands) = 1 /\ Len(d.commands) = 0
    BY <1>2, Remaining DEF RequestInv
  <1>4. s.downloadName = None /\ s.download = FALSE /\ s.bWWWing = FALSE
    <2>1. s.downloadName = None
      BY <1>2 DEF RequestInv, AfterClose
    <2>2. s.download \in BOOLEAN /\ s.bWWWing \in BOOLEAN
      BY DEF Servers
    <2>3. AnswerInv(s, c)
      BY DEF Protocol
    <2> QED
      BY <1>1, <2>1, <2>2, <2>3 DEF OpenHasName, AnswerInv
  <1>5. t.downloadName = c.downloadName /\ t.bWWWing = FALSE /\ t.downloadName \in Files
    <2>1. c.commands[1].arg \in Files
      BY <1>1, CommandKinds DEF Plain
    <2> QED
      BY <1>2, <1>4, <2>1 DEF RequestInv, SameRedirect
  <1>6. None \notin Files
    BY DownloadAssumption
  <1>7. t.state # "dropped" /\ WindowInv(t)
    BY <1>5 DEF Protocol, WindowInv, SameWindow
  <1>8. \A i \in 1..Len(d.commands) : CommandInv(t, d, web, i)
    BY <1>3
  <1>9. AnswerInv(t, d)
    BY <1>5 DEF AnswerInv
  <1>10. GamestateInv(t, d, w)
    <2>1. GamestateInv(s, c, w)
      BY DEF Protocol
    <2>2. ~Coming(s, w)
      BY <1>1, <2>1 DEF GamestateInv
    <2>3. ~Coming(t, w)
      BY <2>2 DEF Coming
    <2> QED
      BY <2>1, <2>3 DEF GamestateInv
  <1>11. ClientInv(t, d)
    <2>1. ClientInv(s, c)
      BY DEF Protocol
    <2>2. Served(t, d)
      <3>1. 0 <= Size[c.downloadName]
        BY <1>5, DownloadAssumption
      <3>2. Collected(d)
        <4>1. d.downloadBlock = 0 /\ ~d.open
          BY <1>1, <1>2 DEF RequestInv, SameClient
        <4>2. d.open = FALSE
          BY <4>1 DEF Clients
        <4>3. (d.downloadBlock > 0) = FALSE
          BY <4>1
        <4> QED
          BY <4>1, <4>2, <4>3, Zenon DEF Collected
      <3> QED
        BY <1>1, <1>2, <1>3, <1>5, <3>1, <3>2 DEF Served, RequestInv, SameClient
    <2> QED
      BY <1>1, <1>5, <1>6, <2>1, <2>2 DEF ClientInv, SameClient
  <1>12. ListInv(t, d)
    <2>1. ListInv(s, c)
      BY DEF Protocol
    <2> QED
      BY <1>1, <1>5, <2>1 DEF ListInv, Unasked, SameClient
  <1>13. ASSUME NEW i \in 1..Len(w) PROVE MessageInv(t, d, web, w[i])
    <2>1. RedirectInv(s, c, web, w[i]) /\ BlockInv(s, c, w[i])
      BY DEF Protocol, MessageInv
    <2>2. RedirectInv(t, d, web, w[i])
      BY <1>1, <1>2, <1>3, <2>1 DEF RedirectInv, RequestInv, Unasked, SameClient
    <2>3. BlockInv(t, d, w[i])
      BY <1>1, <1>4, <2>1 DEF BlockInv, Unasked, SameClient
    <2> QED
      BY <2>2, <2>3 DEF MessageInv
  <1> QED
    BY <1>7, <1>8, <1>9, <1>10, <1>11, <1>12, <1>13 DEF Protocol

\* The client has all it could get, and asks for the gamestate.
LEMMA DonedlExecuted ==
    ASSUME NEW s \in Servers, OpenHasName(s), NEW t \in Servers,
           NEW c \in Clients, NEW d \in Clients, NEW w \in Seq(Messages), NEW web \in Mirrors,
           Protocol(s, c, w, web), Follows(c, d), c.commands[1].cmd = "donedl",
           t.state = s.state, t.gamestate = TRUE, SameFile(s, t), SameWindow(s, t),
           SameRedirect(s, t)
    PROVE  Protocol(t, d, w, web)
  <1>1. /\ SameClient(c, d) /\ 1 \in 1..Len(c.commands) /\ Len(c.commands) > 0
        /\ \A i \in 1..Len(d.commands) : /\ i + 1 \in 2..Len(c.commands)
                                         /\ d.commands[i] = c.commands[i + 1]
    BY Remaining DEF Follows
  <1>2. DonedlInv(s, c, 1)
    BY <1>1 DEF Protocol, CommandInv
  <1>3. c.downloadName = None /\ s.downloadName = None
    BY <1>2 DEF DonedlInv, AfterClose
  <1>4. \A i \in 1..Len(d.commands) : d.commands[i].cmd = "stopdl"
    <2>1. \A j \in 2..Len(c.commands) : c.commands[j].cmd = "stopdl"
      BY <1>2 DEF DonedlInv
    <2>2. ASSUME NEW i \in 1..Len(d.commands) PROVE d.commands[i].cmd = "stopdl"
      <3>1. i + 1 \in 2..Len(c.commands) /\ d.commands[i] = c.commands[i + 1]
        BY <1>1
      <3> QED
        BY <2>1, <3>1
    <2> QED
      BY <2>2
  <1>5. /\ t.downloadName = None /\ t.download = FALSE /\ t.bWWWing = FALSE
        /\ s.download = FALSE
    <2>1. s.download \in BOOLEAN /\ s.bWWWing \in BOOLEAN
      BY DEF Servers
    <2>2. AnswerInv(s, c)
      BY DEF Protocol
    <2> QED
      BY <1>1, <1>3, <2>1, <2>2 DEF OpenHasName, AnswerInv, SameFile, SameRedirect
  <1>6. None \notin Files
    BY DownloadAssumption
  <1>7. t.state # "dropped" /\ WindowInv(t)
    BY <1>5 DEF Protocol, WindowInv, SameWindow
  <1>8. \A i \in 1..Len(d.commands) : CommandInv(t, d, web, i)
    BY <1>4 DEF CommandInv
  <1>9. AnswerInv(t, d)
    BY <1>5 DEF AnswerInv
  <1>10. GamestateInv(t, d, w)
    <2>1. GamestateInv(s, c, w)
      BY DEF Protocol
    <2>2. ~Coming(s, w)
      BY <1>1, <2>1 DEF GamestateInv
    <2> QED
      BY <1>4, <1>5, <2>2 DEF GamestateInv, Coming
  <1>11. ClientInv(t, d)
    BY <1>1, <1>3 DEF Protocol, ClientInv, SameClient
  <1>12. ListInv(t, d)
    <2>1. ListInv(s, c)
      BY DEF Protocol
    <2> QED
      BY <1>1, <1>3, <1>5, <2>1 DEF ListInv, Unasked, SameClient
  <1>13. ASSUME NEW i \in 1..Len(w) PROVE MessageInv(t, d, web, w[i])
    <2>1. RedirectInv(s, c, web, w[i]) /\ BlockInv(s, c, w[i])
      BY DEF Protocol, MessageInv
    <2>2. RedirectInv(t, d, web, w[i])
      BY <1>1, <1>3, <1>6, <2>1 DEF RedirectInv, Unasked, SameClient
    <2>3. BlockInv(t, d, w[i])
      BY <1>1, <1>3, <1>6, <2>1 DEF BlockInv, Unasked, SameClient
    <2> QED
      BY <2>2, <2>3 DEF MessageInv
  <1> QED
    BY <1>7, <1>8, <1>9, <1>10, <1>11, <1>12, <1>13 DEF Protocol

\* The web server did not help: the client gets a gamestate, to begin anew.
LEMMA FailExecuted ==
    ASSUME NEW s \in Servers, OpenHasName(s), NEW t \in Servers,
           NEW c \in Clients, NEW d \in Clients, NEW w \in Seq(Messages), NEW web \in Mirrors,
           Protocol(s, c, w, web), Follows(c, d), c.commands[1].cmd = "wwwdl_fail",
           t.state = s.state, t.gamestate = TRUE, Closed(s, t), t.bWWWing = FALSE
    PROVE  Protocol(t, d, w, web)
  <1>1. SameClient(c, d) /\ 1 \in 1..Len(c.commands) /\ Len(c.commands) > 0
    BY Remaining DEF Follows
  <1>2. Answered(s, c, 1) /\ 1 = Len(c.commands)
    BY <1>1 DEF Protocol, CommandInv
  <1>3. Len(d.commands) = 0 /\ 0 < 1 /\ 0 # 1
    BY <1>2, Remaining
  <1>b. s.bWWWing
    BY <1>2 DEF Answered
  <1>4. t.downloadName = None /\ t.download = FALSE /\ SameWindow(s, t)
    BY DEF Closed
  <1>5. None \notin Files
    BY DownloadAssumption
  <1>6. c.downloadName # None => Failed(s, c)
    <2>1. CommandInv(s, c, web, 1) /\ ClientInv(s, c)
      BY <1>1 DEF Protocol
    <2>2. ~Asked(c) /\ ~Served(s, c) /\ ~Fetching(s, c) /\ ~Skipped(s, c)
      <3>1. c.commands[1].cmd = "wwwdl_fail" /\ Len(c.commands) = 1
        BY <1>2
      <3>2. ~Served(s, c)
        BY <1>b DEF Served
      <3> QED
        BY <3>1, <3>2 DEF Asked, Fetching, Skipped
    <2> QED
      BY <2>1, <2>2 DEF ClientInv
  <1>7. t.state # "dropped" /\ WindowInv(t)
    BY <1>4 DEF Protocol, WindowInv, SameWindow
  <1>8. \A i \in 1..Len(d.commands) : CommandInv(t, d, web, i)
    BY <1>3
  <1>9. AnswerInv(t, d)
    BY DEF AnswerInv
  <1>10. GamestateInv(t, d, w)
    <2>1. GamestateInv(s, c, w)
      BY DEF Protocol
    <2>2. ~Coming(s, w)
      BY <1>1, <2>1 DEF GamestateInv
    <2> QED
      BY <1>3, <1>4, <2>2 DEF GamestateInv, Coming
  <1>11. ClientInv(t, d)
    <2>1. ClientInv(s, c)
      BY DEF Protocol
    <2>2. c.downloadName # None => Failed(t, d)
      BY <1>1, <1>3, <1>4, <1>6 DEF Failed, SameClient
    <2> QED
      BY <1>1, <2>1, <2>2 DEF ClientInv, SameClient
  <1>12. ListInv(t, d)
    <2>1. ListInv(s, c)
      BY DEF Protocol
    <2>2. c.downloadList \in Seq(Files)
      BY DEF Clients
    <2>3. Unasked(d, None)
      <3>1. \A i \in 1..Len(c.downloadList) : c.downloadList[i] \in Files
        BY <2>2
      <3> QED
        BY <1>1, <1>5, <3>1 DEF Unasked, SameClient
    <2> QED
      BY <1>1, <1>4, <2>1, <2>3 DEF ListInv, Unasked, SameClient
  <1>13. ASSUME NEW i \in 1..Len(w) PROVE MessageInv(t, d, web, w[i])
    <2>1. RedirectInv(s, c, web, w[i]) /\ BlockInv(s, c, w[i])
      BY DEF Protocol, MessageInv
    <2>2. w[i].type = "www" => w[i].file # c.downloadName \/ c.bWWWDl
      BY <1>5, <1>6, <2>1 DEF RedirectInv, Failed
    <2>3. RedirectInv(t, d, web, w[i])
      BY <1>1, <2>1, <2>2 DEF RedirectInv, Unasked, SameClient
    <2>4. BlockInv(t, d, w[i])
      BY <1>1, <1>5, <1>6, <2>1 DEF BlockInv, Failed, Unasked, SameClient
    <2> QED
      BY <2>3, <2>4 DEF MessageInv
  <1> QED
    BY <1>7, <1>8, <1>9, <1>10, <1>11, <1>12, <1>13 DEF Protocol

\* The client asks the web server.
LEMMA AckExecuted ==
    ASSUME NEW s \in Servers, OpenHasName(s), NEW t \in Servers,
           NEW c \in Clients, NEW d \in Clients, NEW w \in Seq(Messages), NEW web \in Mirrors,
           Protocol(s, c, w, web), Follows(c, d), c.commands[1].cmd = "wwwdl_ack",
           t.state = s.state, t.gamestate = s.gamestate, SameFile(s, t), SameWindow(s, t),
           t.bWWWDl = s.bWWWDl, t.bWWWing = TRUE, t.bFallback = s.bFallback
    PROVE  Protocol(t, d, w, web)
  <1> DEFINE n == Len(c.commands)
             k == Len(d.commands)
  <1>1. /\ n \in Nat /\ k \in Nat /\ 1 \in 1..n /\ n > 0 /\ n # 0 /\ k = n - 1
        /\ \A i \in 1..k : /\ i + 1 \in 1..n /\ d.commands[i] = c.commands[i + 1]
                           /\ i \in Nat /\ i + 1 # 1 /\ (i + 1 = 2 <=> i = 1)
                           /\ (i + 1 = n <=> i = k)
        /\ SameClient(c, d)
    BY Remaining DEF Follows
  <1>2. \A i \in 1..n : CommandInv(s, c, web, i)
    BY DEF Protocol
  <1>3. Redirecting(s, web) /\ (n > 1 => c.commands[2].cmd \in {"wwwdl_done", "wwwdl_fail"})
    BY <1>1, <1>2 DEF CommandInv, AckInv
  <1>4. /\ t.downloadName = s.downloadName /\ t.download = s.download
        /\ s.downloadName # None /\ ~s.download /\ s.bWWWDl
    BY <1>3 DEF SameFile, Redirecting
  <1>5. \A i \in 1..k : d.commands[i].cmd # "nextdl"
    <2> SUFFICES ASSUME NEW i \in 1..k, d.commands[i].cmd = "nextdl" PROVE FALSE
      OBVIOUS
    <2>1. NextdlInv(s, c, i + 1)
      BY <1>1, <1>2 DEF CommandInv
    <2> QED
      BY <1>4, <2>1 DEF NextdlInv
  <1>6. ASSUME NEW i \in 1..k, AfterClose(s, c, i + 1)
        PROVE  AfterClose(t, d, i)
    <2>1. i # 1
      <3> SUFFICES ASSUME i = 1 PROVE FALSE
        OBVIOUS
      <3>1. Closes(s, c.commands[1])
        BY <1>1, <1>6 DEF AfterClose
      <3> QED
        BY <3>1 DEF Closes
    <2>2. i - 1 \in 1..k /\ (i - 1) + 1 = i /\ (i + 1) - 1 = i
      BY <1>1, <2>1
    <2>3. Closes(s, c.commands[i])
      BY <1>1, <1>6, <2>2 DEF AfterClose
    <2>4. d.commands[i - 1] = c.commands[i]
      BY <1>1, <2>2
    <2> QED
      BY <1>4, <2>1, <2>3, <2>4 DEF AfterClose, Closes
  <1>7. t.state # "dropped" /\ WindowInv(t)
    BY <1>4 DEF Protocol, WindowInv, SameWindow
  <1>8. ASSUME NEW i \in 1..k PROVE CommandInv(t, d, web, i)
    <2>1. CommandInv(s, c, web, i + 1) /\ d.commands[i] = c.commands[i + 1]
          /\ i + 1 # 1 /\ (i + 1 = 2 <=> i = 1) /\ (i + 1 = n <=> i = k)
      BY <1>1, <1>2
    <2>2. ASSUME d.commands[i].cmd = "download" PROVE RequestInv(t, d, i)
      <3>1. RequestInv(s, c, i + 1)
        BY <2>1, <2>2 DEF CommandInv
      <3> QED
        BY <1>1, <1>4, <1>6, <2>1, <3>1 DEF RequestInv, SameClient
    <2>3. d.commands[i].cmd # "wwwdl_ack"
      BY <2>1 DEF CommandInv, AckInv
    <2>4. d.commands[i].cmd \in {"wwwdl_done", "wwwdl_fail"} =>
             /\ Answered(t, d, i)
             /\ d.commands[i].cmd = "wwwdl_fail" => i = k /\ d.downloadName # None
      BY <1>1, <2>1 DEF CommandInv, Answered, SameClient
    <2>5. ASSUME d.commands[i].cmd = "donedl" PROVE DonedlInv(t, d, i)
      <3>1. DonedlInv(s, c, i + 1)
        BY <2>1, <2>5 DEF CommandInv
      <3>2. \A j \in i + 1..k : j \in 1..k /\ j + 1 \in (i + 1) + 1..n
        BY <1>1
      <3>3. \A j \in i + 1..k : d.commands[j].cmd = "stopdl"
        <4>1. \A j \in (i + 1) + 1..n : c.commands[j].cmd = "stopdl"
          BY <3>1 DEF DonedlInv, n
        <4>2. \A j \in 1..k : d.commands[j] = c.commands[j + 1]
          BY <1>1
        <4> QED
          BY <3>2, <4>1, <4>2, Zenon
      <3>4. d.downloadName = None /\ AfterClose(t, d, i)
        BY <1>1, <1>6, <3>1 DEF DonedlInv, SameClient
      <3> QED
        BY <3>3, <3>4 DEF DonedlInv, k
    <2> QED
      BY <1>5, <2>2, <2>3, <2>4, <2>5 DEF CommandInv
  <1>9. AnswerInv(t, d)
    <2>1. k > 0 => n > 1 /\ d.commands[1] = c.commands[2]
      BY <1>1
    <2>2. ~(k > 0) => n = 1
      <3>1. n \in Nat /\ n > 0 /\ k = n - 1
        BY <1>1
      <3> HIDE DEF n, k
      <3> QED
        BY <3>1
    <2>3. n = 1 => d.fetching # None
      BY <1>1, <1>2 DEF CommandInv, AckInv, SameClient
    <2> QED
      BY <1>3, <2>1, <2>2, <2>3 DEF AnswerInv
  <1>10. GamestateInv(t, d, w)
    <2>1. GamestateInv(s, c, w)
      BY DEF Protocol
    <2>2. ~Coming(s, w)
      BY <1>1, <2>1 DEF GamestateInv
    <2>3. ~Coming(t, w)
      BY <2>2 DEF Coming
    <2> QED
      BY <2>1, <2>3 DEF GamestateInv
  <1>11. ClientInv(t, d)
    <2>1. ClientInv(s, c)
      BY DEF Protocol
    <2>2. Asked(c) => Asked(d)
      BY AskedStill
    <2>3. ~Served(s, c) /\ ~Skipped(s, c)
      BY <1>1 DEF Served, Skipped
    <2>4. ASSUME Fetching(s, c) PROVE Fetching(t, d)
      BY <1>1, <1>4, <2>4 DEF Fetching, SameClient
    <2>5. ASSUME Failed(s, c) PROVE Failed(t, d)
      <3>1. n = 2
        <4>1. \/ c.commands[1].cmd = "wwwdl_ack" /\ n = 2
              \/ c.commands[1].cmd = "wwwdl_fail" /\ n = 1
          BY <1>1, <1>2, <2>5, FailedFirst
        <4> QED
          BY <4>1
      <3>2. k > 0 /\ d.commands[k] = c.commands[n]
        BY <1>1, <3>1, AskedStill
      <3>3. c.commands[n].cmd = "wwwdl_fail"
        BY <1>1, <2>5 DEF Failed
      <3> QED
        BY <1>1, <2>5, <3>2, <3>3 DEF Failed, SameClient
    <2> QED
      BY <1>1, <2>1, <2>2, <2>3, <2>4, <2>5 DEF ClientInv, SameClient
  <1>12. ListInv(t, d)
    <2>1. ListInv(s, c)
      BY DEF Protocol
    <2> QED
      BY <1>1, <1>4, <2>1 DEF ListInv, Unasked, SameClient
  <1>13. ASSUME NEW i \in 1..Len(w) PROVE MessageInv(t, d, web, w[i])
    <2>1. RedirectInv(s, c, web, w[i]) /\ BlockInv(s, c, w[i])
      BY DEF Protocol, MessageInv
    <2>2. RedirectInv(t, d, web, w[i])
      BY <1>1, <2>1 DEF RedirectInv, Unasked, SameClient
    <2>3. BlockInv(t, d, w[i])
      BY <1>1, <1>4, <2>1 DEF BlockInv, Numbered, Unasked, SameClient, SameWindow
    <2> QED
      BY <2>2, <2>3 DEF MessageInv
  <1> QED
    BY <1>7, <1>8, <1>9, <1>10, <1>11, <1>12, <1>13 DEF Protocol

\* The server executes the first of the client's commands, and drops nobody for it.
LEMMA FirstExecuted ==
    ASSUME NEW s \in Servers, OpenHasName(s), s.state = "connected",
           NEW c \in Clients, NEW d \in Clients, NEW w \in Seq(Messages), NEW web \in Mirrors,
           Protocol(s, c, w, web), Follows(c, d)
    PROVE  LET t == SV_ExecuteClientCommand(s, c.commands[1])
           IN  /\ t \in Servers /\ OpenHasName(t) /\ t.state = "connected"
               /\ t.serverId = s.serverId /\ Protocol(t, d, w, web)
  <1> DEFINE m == c.commands[1]
             t == SV_ExecuteClientCommand(s, m)
             n == Len(c.commands)
  <1> SUFFICES /\ t \in Servers /\ OpenHasName(t) /\ t.state = "connected"
               /\ t.serverId = s.serverId /\ Protocol(t, d, w, web)
    OBVIOUS
  <1>1. n \in Nat /\ n > 0 /\ 1 \in 1..n /\ m \in Commands
    <2>1. n \in Nat /\ 1 \in 1..n /\ c.commands \in Seq(Commands)
      BY Remaining DEF Clients
    <2> QED
      BY <2>1
  <1>2. t \in Servers /\ OpenHasName(t) /\ t.serverId = s.serverId /\ Effect(s, m, t)
    BY <1>1, CommandExecuted
  <1>3. \A i \in 1..n : CommandInv(s, c, web, i)
    BY DEF Protocol
  <1>4. WindowInv(s) /\ AnswerInv(s, c)
    BY DEF Protocol
  <1>5. s.bWWWing \in BOOLEAN
    BY DEF Servers
  <1> HIDE DEF t
  <1>6. ASSUME m.cmd # "nextdl" PROVE \A i \in 2..n : c.commands[i].cmd # "nextdl"
    <2> SUFFICES ASSUME NEW i \in 2..n, c.commands[i].cmd = "nextdl" PROVE FALSE
      OBVIOUS
    <2>1. i \in 1..n /\ 1 \in 1..i - 1
      BY <1>1
    <2>2. NextdlInv(s, c, i)
      BY <1>3, <2>1 DEF CommandInv
    <2> QED
      BY <1>6, <2>1, <2>2 DEF NextdlInv
  <1>7. CASE m.cmd = "nextdl"
    <2> DEFINE b == s.clientBlock
    <2>1. /\ m.arg = b /\ ~s.bWWWing /\ s.downloadName \in Files /\ b <= Size[s.downloadName]
          /\ s.currentBlock <= Size[s.downloadName] + 1
          /\ IsEmpty(s.blocks[b % MAX_DOWNLOAD_WINDOW]) <=> b = Size[s.downloadName]
      BY <1>1, <1>3, <1>4, <1>7, Acknowledged
    <2>2. CASE b = Size[s.downloadName]
      <3>1. Closed(s, t) /\ SameRedirect(s, t) /\ t.state = s.state /\ t.gamestate = s.gamestate
        BY <1>2, <1>7, <2>1, <2>2 DEF Effect
      <3>2. \A i \in 2..n : c.commands[i].cmd # "nextdl"
        <4> SUFFICES ASSUME NEW i \in 2..n, c.commands[i].cmd = "nextdl" PROVE FALSE
          OBVIOUS
        <4>1. i \in 1..n /\ i \in Nat /\ i >= 2
          BY <1>1
        <4>2. NextdlInv(s, c, i)
          BY <1>3, <4>1 DEF CommandInv
        <4>3. b + i - 1 < s.currentBlock /\ b \in Nat /\ s.currentBlock \in Nat
          BY <4>2 DEF NextdlInv, Servers
        <4> QED
          BY <2>1, <2>2, <4>1, <4>3
      <3>3. ~Served(s, c)
        <4> SUFFICES ASSUME Served(s, c) PROVE FALSE
          OBVIOUS
        <4>1. NextdlInv(s, c, 1)
          BY <1>1, <1>3, <1>7 DEF CommandInv
        <4>2. b + n <= Size[s.downloadName] /\ b \in Nat
          BY <4>1 DEF NextdlInv, Served, Servers
        <4> QED
          BY <1>1, <2>2, <4>2
      <3>4. Closing(s, c, t)
        BY <1>7, <2>1, <3>1, <3>2, <3>3 DEF Closing, SameRedirect
      <3> QED
        BY <1>2, <3>1, <3>4, ClosingExecuted
    <2>3. CASE b # Size[s.downloadName]
      <3>1. /\ t.state = s.state /\ t.gamestate = s.gamestate /\ SameRedirect(s, t)
            /\ SameFile(s, t) /\ t.clientBlock = s.clientBlock + 1
            /\ t.currentBlock = s.currentBlock /\ t.xmitBlock = s.xmitBlock
            /\ t.blocks = s.blocks
        BY <1>2, <1>7, <2>1, <2>3 DEF Effect
      <3> QED
        BY <1>2, <1>7, <2>3, <3>1, NextdlExecuted
    <2> QED
      BY <2>2, <2>3
  <1>8. CASE m.cmd = "download"
    <2>1. /\ t.state = s.state /\ t.gamestate = s.gamestate
          /\ t.downloadName = m.arg /\ t.download = FALSE
          /\ SameWindow(s, t) /\ SameRedirect(s, t)
      BY <1>2, <1>8 DEF Effect
    <2> QED
      BY <1>2, <1>8, <2>1, DownloadExecuted
  <1>9. CASE m.cmd = "stopdl"
    <2>1. t.state = s.state /\ t.gamestate = s.gamestate /\ Closed(s, t) /\ SameRedirect(s, t)
      BY <1>2, <1>9 DEF Effect
    <2>2. ~s.bWWWing /\ ~Served(s, c)
      BY <1>1, <1>4, <1>9 DEF AnswerInv, Served
    <2>3. Closing(s, c, t)
      BY <1>6, <1>9, <2>1, <2>2 DEF Closing, SameRedirect
    <2> QED
      BY <1>2, <2>1, <2>3, ClosingExecuted
  <1>10. CASE m.cmd = "donedl"
    <2>1. /\ t.state = s.state /\ t.gamestate = TRUE
          /\ SameFile(s, t) /\ SameWindow(s, t) /\ SameRedirect(s, t)
      BY <1>2, <1>10 DEF Effect
    <2> QED
      BY <1>2, <1>10, <2>1, DonedlExecuted
  <1>11. CASE m.cmd = "wwwdl_ack"
    <2>1. s.bWWWDl
      BY <1>1, <1>3, <1>11 DEF CommandInv, AckInv, Redirecting
    <2>2. /\ t.state = s.state /\ t.gamestate = s.gamestate
          /\ SameFile(s, t) /\ SameWindow(s, t)
          /\ t.bWWWDl = s.bWWWDl /\ t.bWWWing = TRUE /\ t.bFallback = s.bFallback
      BY <1>2, <1>11, <2>1 DEF Effect
    <2> QED
      BY <1>2, <1>11, <2>2, AckExecuted
  <1>12. CASE m.cmd \in {"wwwdl_done", "wwwdl_fail"}
    <2>1. s.bWWWing /\ s.bWWWDl
      BY <1>1, <1>3, <1>4, <1>12 DEF CommandInv, Answered, WindowInv
    <2>2. CASE m.cmd = "wwwdl_done"
      <3>1. /\ t.state = s.state /\ t.gamestate = s.gamestate /\ Closed(s, t)
            /\ t.bWWWing = FALSE
        BY <1>2, <2>1, <2>2 DEF Effect
      <3>2. ~Served(s, c)
        BY <2>1 DEF Served
      <3>3. Closing(s, c, t)
        BY <1>6, <2>2, <3>1, <3>2 DEF Closing
      <3> QED
        BY <1>2, <3>1, <3>3, ClosingExecuted
    <2>3. CASE m.cmd = "wwwdl_fail"
      <3>1. t.state = s.state /\ t.gamestate = TRUE /\ Closed(s, t) /\ t.bWWWing = FALSE
        BY <1>2, <2>1, <2>3 DEF Effect
      <3> QED
        BY <1>2, <2>3, <3>1, FailExecuted
    <2> QED
      BY <1>12, <2>2, <2>3
  <1> QED
    BY <1>1, <1>7, <1>8, <1>9, <1>10, <1>11, <1>12, CommandKinds DEF Plain

\* All but the first n of the commands.
Rest(c, n) == [c EXCEPT !.commands = SubSeq(@, n + 1, Len(@))]

LEMMA RestType ==
    ASSUME NEW c \in Clients, NEW n \in 0..Len(c.commands)
    PROVE  LET d == Rest(c, n)
           IN  /\ d \in Clients /\ SameClient(c, d)
               /\ d.redirected = c.redirected /\ d.bad = c.bad /\ d.saved = c.saved
               /\ d.mixed = c.mixed /\ d.serverId = c.serverId /\ d.known = c.known
               /\ d.commands \in Seq(Commands)
               /\ Len(d.commands) = Len(c.commands) - n /\ Len(c.commands) \in Nat
               /\ \A k \in 1..Len(c.commands) - n : d.commands[k] = c.commands[n + k]
  <1> DEFINE q == c.commands
             r == SubSeq(q, n + 1, Len(q))
             d == [c EXCEPT !.commands = r]
  <1>1. q \in Seq(Commands) /\ Len(q) \in Nat /\ n \in Nat
    BY DEF Clients
  <1>2. r \in Seq(Commands) /\ Len(r) = Len(q) - n
    BY <1>1
  <1>3. \A k \in 1..Len(q) - n : r[k] = q[n + k]
    BY <1>1
  <1> HIDE DEF r
  <1>4. /\ d \in Clients /\ SameClient(c, d)
        /\ d.redirected = c.redirected /\ d.bad = c.bad /\ d.saved = c.saved
        /\ d.mixed = c.mixed /\ d.serverId = c.serverId /\ d.known = c.known
        /\ d.commands = r
    BY <1>2 DEF Clients, SameClient
  <1>5. Rest(c, n) = d
    BY DEF Rest, r
  <1> HIDE DEF d
  <1> QED
    BY <1>1, <1>2, <1>3, <1>4, <1>5

LEMMA RestOfNone ==
    ASSUME NEW c \in Clients
    PROVE  Rest(c, 0) = c
  <1>1. c.commands \in Seq(Commands)
    BY DEF Clients
  <1>2. SubSeq(c.commands, 0 + 1, Len(c.commands)) = c.commands
    BY <1>1
  <1> QED
    BY <1>2, Zenon DEF Rest, Clients

LEMMA RestFollows ==
    ASSUME NEW c \in Clients, NEW n \in 1..Len(c.commands)
    PROVE  /\ Rest(c, n - 1) \in Clients /\ Rest(c, n) \in Clients
           /\ Follows(Rest(c, n - 1), Rest(c, n))
           /\ Rest(c, n - 1).commands[1] = c.commands[n]
  <1> DEFINE a == Rest(c, n - 1)
             d == Rest(c, n)
             q == c.commands
  <1>1. Len(q) \in Nat /\ n - 1 \in 0..Len(q) /\ n \in 0..Len(q)
    BY RestType DEF Clients
  <1>2. /\ a \in Clients /\ SameClient(c, a) /\ Len(a.commands) = Len(q) - (n - 1)
        /\ \A k \in 1..Len(q) - (n - 1) : a.commands[k] = q[n - 1 + k]
    BY <1>1, RestType
  <1>3. /\ d \in Clients /\ SameClient(c, d) /\ Len(d.commands) = Len(q) - n
        /\ \A k \in 1..Len(q) - n : d.commands[k] = q[n + k]
    BY <1>1, RestType
  <1> HIDE DEF a, d
  <1>4. SameClient(a, d)
    BY <1>2, <1>3 DEF SameClient
  <1>5. Len(a.commands) > 0 /\ Len(d.commands) = Len(a.commands) - 1
    BY <1>1, <1>2, <1>3
  <1>6. ASSUME NEW k \in 1..Len(d.commands) PROVE d.commands[k] = a.commands[k + 1]
    <2>1. k + 1 \in 1..Len(q) - (n - 1) /\ k \in 1..Len(q) - n /\ n - 1 + (k + 1) = n + k
      BY <1>1, <1>3
    <2> QED
      BY <1>2, <1>3, <2>1
  <1>7. a.commands[1] = q[n]
    <2>1. 1 \in 1..Len(q) - (n - 1) /\ n - 1 + 1 = n
      BY <1>1
    <2> QED
      BY <1>2, <2>1
  <1> QED
    BY <1>2, <1>3, <1>4, <1>5, <1>6, <1>7 DEF Follows, a, d

\* The server after the first n commands.
Executed(s, c, n) ==
    LET executed[i \in 0..n] ==
            IF i = 0 THEN s ELSE SV_ExecuteClientCommand(executed[i - 1], c.commands[i])
    IN  executed[n]

\* What may come of s.
Later(s) == {t \in Servers : OpenHasName(t) /\ t.serverId = s.serverId}

LEMMA CommandTyped ==
    ASSUME NEW s \in Servers, NEW t \in Later(s), NEW m \in Commands
    PROVE  SV_ExecuteClientCommand(t, m) \in Later(s)
  <1>1. t \in Servers /\ OpenHasName(t) /\ t.serverId = s.serverId
    BY DEF Later
  <1>2. CASE t.state # "connected"
    BY <1>2 DEF SV_ExecuteClientCommand
  <1>3. CASE t.state = "connected"
    <2> DEFINE u == SV_ExecuteClientCommand(t, m)
    <2>1. u \in Servers /\ OpenHasName(u) /\ u.serverId = t.serverId
      BY <1>1, <1>3, CommandExecuted
    <2> HIDE DEF u
    <2>2. u \in Later(s)
      BY <1>1, <2>1 DEF Later
    <2> QED
      BY <2>2 DEF u
  <1> QED
    BY <1>2, <1>3

Runs(s, c, n, g) ==
    g = [i \in 0..n |-> IF i = 0 THEN s ELSE SV_ExecuteClientCommand(g[i - 1], c.commands[i])]

LEMMA RunsExist ==
    ASSUME NEW s \in Servers, OpenHasName(s), NEW c \in Clients, NEW n \in 0..Len(c.commands)
    PROVE  \E g : Runs(s, c, n, g)
  <1> DEFINE S == Later(s)
             f == [i \in 1..n |-> [t \in S |-> SV_ExecuteClientCommand(t, c.commands[i])]]
  <1>1. n \in Nat /\ s \in S
    BY DEF Later, Clients
  <1>2. f \in [1..n -> [S -> S]]
    <2>1. \A i \in 1..n : c.commands[i] \in Commands
      BY DEF Clients
    <2>2. \A i \in 1..n : \A t \in S : SV_ExecuteClientCommand(t, c.commands[i]) \in S
      BY <2>1, CommandTyped
    <2> HIDE DEF S
    <2> QED
      BY <2>2
  <1>3. \A i \in 1..n : \A t \in S : f[i][t] = SV_ExecuteClientCommand(t, c.commands[i])
    OBVIOUS
  <1> HIDE DEF f, S
  <1>g. PICK g : Stepped(n, S, s, f, g)
    <2>1. Stepping(n, S, s, f)
      BY <1>1, <1>2 DEF Stepping
    <2> QED
      BY <2>1, StepsExist
  <1>4. /\ g \in [0..n -> S] /\ g = [i \in 0..n |-> g[i]]
        /\ g[0] = s /\ \A i \in 1..n : g[i] = f[i][g[i - 1]]
    BY <1>g DEF Stepped
  <1>5. ASSUME NEW i \in 0..n
        PROVE  g[i] = IF i = 0 THEN s ELSE SV_ExecuteClientCommand(g[i - 1], c.commands[i])
    <2>1. CASE i = 0
      BY <1>4, <2>1
    <2>2. CASE i # 0
      <3>1. i \in 1..n /\ i - 1 \in 0..n
        BY <1>1, <2>2
      <3>2. g[i - 1] \in S
        BY <1>4, <3>1
      <3> QED
        BY <1>3, <1>4, <2>2, <3>1, <3>2
    <2> QED
      BY <2>1, <2>2
  <1>6. g = [i \in 0..n |->
                IF i = 0 THEN s ELSE SV_ExecuteClientCommand(g[i - 1], c.commands[i])]
    BY <1>4, <1>5
  <1> QED
    BY <1>4, <1>6, Zenon DEF Runs, S

\* The commands of a message are executed one after the other.
LEMMA AllExecuted ==
    ASSUME NEW s \in Servers, OpenHasName(s), NEW c \in Clients, NEW n \in 0..Len(c.commands)
    PROVE  LET t == Executed(s, c, n)
           IN  /\ t \in Servers /\ OpenHasName(t) /\ t.serverId = s.serverId
               /\ \A w \in Seq(Messages), web \in Mirrors :
                     s.state = "connected" /\ Protocol(s, c, w, web) =>
                        t.state = "connected" /\ Protocol(t, Rest(c, n), w, web)
  <1> DEFINE g[i \in 0..n] ==
                 IF i = 0 THEN s ELSE SV_ExecuteClientCommand(g[i - 1], c.commands[i])
             t == Executed(s, c, n)
  <1>1. t = g[n]
    BY DEF Executed
  <1>2. Runs(s, c, n, g)
    <2>1. \E x : Runs(s, c, n, x)
      BY RunsExist
    <2> QED
      BY <2>1, Zenon DEF Runs
  <1> HIDE DEF g, t
  <1>3. /\ n \in Nat
        /\ \A i \in 0..n : g[i] =
              IF i = 0 THEN s ELSE SV_ExecuteClientCommand(g[i - 1], c.commands[i])
    BY <1>2 DEF Runs, Clients
  <1>4. \A i \in 0..n : g[i] \in Servers /\ OpenHasName(g[i]) /\ g[i].serverId = s.serverId
    <2> DEFINE T == {i \in 0..n : g[i] \in Later(s)}
    <2>1. g[0] \in Later(s)
      BY <1>3 DEF Later
    <2>2. ASSUME NEW i \in 1..n, g[i - 1] \in Later(s)
          PROVE  g[i] \in Later(s)
      <3>1. i \in 0..n /\ i # 0 /\ c.commands[i] \in Commands
        BY <1>3 DEF Clients
      <3> QED
        BY <1>3, <2>2, <3>1, CommandTyped
    <2>3. 0 \in T /\ \A i \in 1..n : i - 1 \in T => i \in T
      BY <1>3, <2>1, <2>2
    <2>4. \A i \in 0..n : i \in T
      <3> HIDE DEF T
      <3> QED
        BY <1>3, <2>3, UpTo
    <2> QED
      BY <2>4 DEF Later
  <1>5. ASSUME NEW w \in Seq(Messages), NEW web \in Mirrors,
               s.state = "connected", Protocol(s, c, w, web)
        PROVE  t.state = "connected" /\ Protocol(t, Rest(c, n), w, web)
    <2> DEFINE P(i) == g[i].state = "connected" /\ Protocol(g[i], Rest(c, i), w, web)
               T == {i \in 0..n : P(i)}
    <2>1. P(0)
      <3>1. g[0] = s
        BY <1>3
      <3> QED
        BY <1>5, <3>1, RestOfNone
    <2>2. ASSUME NEW i \in 1..n, P(i - 1)
          PROVE  P(i)
      <3>1. i \in 0..n /\ i - 1 \in 0..n /\ i # 0 /\ i \in 1..Len(c.commands)
        BY <1>3 DEF Clients
      <3>2. g[i] = SV_ExecuteClientCommand(g[i - 1], Rest(c, i - 1).commands[1])
        BY <1>3, <3>1, RestFollows
      <3>3. /\ Rest(c, i - 1) \in Clients /\ Rest(c, i) \in Clients
            /\ Follows(Rest(c, i - 1), Rest(c, i))
        BY <3>1, RestFollows
      <3> DEFINE u == g[i - 1]
                 a == Rest(c, i - 1)
                 d == Rest(c, i)
                 v == SV_ExecuteClientCommand(u, a.commands[1])
      <3>4. /\ u \in Servers /\ OpenHasName(u) /\ u.state = "connected"
            /\ Protocol(u, a, w, web) /\ a \in Clients /\ d \in Clients /\ Follows(a, d)
        BY <1>4, <2>2, <3>1, <3>3
      <3> HIDE DEF u, a, d
      <3>5. v.state = "connected" /\ Protocol(v, d, w, web)
        BY <3>4, FirstExecuted
      <3> QED
        BY <3>2, <3>5 DEF u, a, d
    <2> HIDE DEF P
    <2>3. 0 \in T /\ \A i \in 1..n : i - 1 \in T => i \in T
      BY <1>3, <2>1, <2>2
    <2>4. \A i \in 0..n : i \in T
      <3> HIDE DEF T
      <3> QED
        BY <1>3, <2>3, UpTo
    <2>5. P(n)
      BY <1>3, <2>4
    <2> QED
      BY <1>1, <2>5 DEF P
  <1> QED
    BY <1>1, <1>3, <1>4, <1>5 DEF t

-----------------------------------------------------------------------------
(* The server's steps                                                      *)

SameServer(s, t) == SameFile(s, t) /\ SameWindow(s, t) /\ SameRedirect(s, t)

\* The commands, the list and the messages know nothing else of the server.
LEMMA CommandsKept ==
    ASSUME NEW s, NEW t, NEW c, NEW web, SameServer(s, t)
    PROVE  /\ \A i : CommandInv(s, c, web, i) => CommandInv(t, c, web, i)
           /\ WindowInv(s) => WindowInv(t)
           /\ AnswerInv(s, c) => AnswerInv(t, c)
           /\ ListInv(s, c) => ListInv(t, c)
           /\ \A m : MessageInv(s, c, web, m) => MessageInv(t, c, web, m)
  <1>1. /\ t.downloadName = s.downloadName /\ t.download = s.download
        /\ t.clientBlock = s.clientBlock /\ t.currentBlock = s.currentBlock
        /\ t.xmitBlock = s.xmitBlock /\ t.blocks = s.blocks
        /\ t.bWWWDl = s.bWWWDl /\ t.bWWWing = s.bWWWing /\ t.bFallback = s.bFallback
    BY DEF SameServer, SameFile, SameWindow, SameRedirect
  <1>2. ASSUME NEW i PROVE AfterClose(s, c, i) = AfterClose(t, c, i)
    BY <1>1 DEF AfterClose, Closes
  <1>3. Redirecting(s, web) = Redirecting(t, web)
    BY <1>1 DEF Redirecting
  <1>4. ASSUME NEW i, CommandInv(s, c, web, i) PROVE CommandInv(t, c, web, i)
    <2>1. NextdlInv(s, c, i) => NextdlInv(t, c, i)
      BY <1>1 DEF NextdlInv
    <2>2. RequestInv(s, c, i) => RequestInv(t, c, i)
      BY <1>1, <1>2 DEF RequestInv
    <2>3. AckInv(s, c, web, i) => AckInv(t, c, web, i)
      BY <1>3 DEF AckInv
    <2>4. Answered(s, c, i) => Answered(t, c, i)
      BY <1>1 DEF Answered
    <2>5. DonedlInv(s, c, i) => DonedlInv(t, c, i)
      BY <1>2 DEF DonedlInv
    <2> QED
      BY <1>4, <2>1, <2>2, <2>3, <2>4, <2>5 DEF CommandInv
  <1>5. WindowInv(s) => WindowInv(t)
    BY <1>1 DEF WindowInv, OpenInv, PlaceInv
  <1>6. AnswerInv(s, c) => AnswerInv(t, c)
    BY <1>1 DEF AnswerInv
  <1>7. ListInv(s, c) => ListInv(t, c)
    BY <1>1 DEF ListInv
  <1>8. ASSUME NEW m, MessageInv(s, c, web, m) PROVE MessageInv(t, c, web, m)
    <2>1. RedirectInv(s, c, web, m) => RedirectInv(t, c, web, m)
      BY <1>1, <1>3 DEF RedirectInv
    <2>2. BlockInv(s, c, m) => BlockInv(t, c, m)
      BY <1>1 DEF BlockInv, Numbered
    <2> QED
      BY <1>8, <2>1, <2>2 DEF MessageInv
  <1> QED
    BY <1>4, <1>5, <1>6, <1>7, <1>8

LEMMA ServerKept ==
    ASSUME NEW s, NEW t, NEW c, NEW w, NEW web, Protocol(s, c, w, web),
           SameServer(s, t), t.state # "dropped", t.gamestate = s.gamestate
    PROVE  Protocol(t, c, w, web)
  <1>1. /\ \A i \in 1..Len(c.commands) : CommandInv(t, c, web, i)
        /\ WindowInv(t) /\ AnswerInv(t, c) /\ ListInv(t, c)
        /\ \A i \in 1..Len(w) : MessageInv(t, c, web, w[i])
    BY CommandsKept DEF Protocol
  <1>2. /\ t.downloadName = s.downloadName /\ t.download = s.download
        /\ t.clientBlock = s.clientBlock /\ t.bWWWing = s.bWWWing
    BY DEF SameServer, SameFile, SameWindow, SameRedirect
  <1>3. GamestateInv(t, c, w)
    <2>1. GamestateInv(s, c, w)
      BY DEF Protocol
    <2> QED
      BY <1>2, <2>1 DEF GamestateInv, Coming
  <1>4. ClientInv(t, c)
    <2>1. ClientInv(s, c)
      BY DEF Protocol
    <2>2. Served(s, c) => Served(t, c)
      BY <1>2 DEF Served
    <2>3. Fetching(s, c) => Fetching(t, c)
      BY <1>2 DEF Fetching
    <2>4. Failed(s, c) => Failed(t, c)
      BY <1>2 DEF Failed
    <2>5. Skipped(s, c) => Skipped(t, c)
      BY <1>2 DEF Skipped
    <2> QED
      BY <2>1, <2>2, <2>3, <2>4, <2>5 DEF ClientInv
  <1> QED
    BY <1>1, <1>3, <1>4 DEF Protocol

\* The gamestate that is due is sent, and lost or not.
LEMMA GamestateSent ==
    ASSUME NEW s \in Servers, NEW t \in Servers, NEW c \in Clients, NEW w \in Seq(Messages),
           NEW v \in Seq(Messages), NEW m \in Messages, NEW web \in Mirrors,
           Protocol(s, c, w, web), SameServer(s, t), t.state = s.state,
           s.gamestate = TRUE, t.gamestate = FALSE, m.type = "gamestate",
           v \in {w, Append(w, m)}
    PROVE  Protocol(t, c, v, web)
  <1>1. GamestateInv(s, c, w)
    BY DEF Protocol
  <1>2. /\ s.downloadName = None /\ \A i \in 1..Len(c.commands) : c.commands[i].cmd = "stopdl"
        /\ \A i \in 1..Len(w) : w[i].type # "gamestate"
    BY <1>1 DEF GamestateInv, Coming
  <1>3. t.downloadName = None
    BY <1>2 DEF SameServer, SameFile
  <1>4. \A i \in 1..Len(w) : MessageInv(t, c, web, w[i])
    BY CommandsKept DEF Protocol
  <1>5. MessageInv(t, c, web, m)
    BY DEF MessageInv, RedirectInv, BlockInv
  <1>6. /\ \A i \in 1..Len(v) : MessageInv(t, c, web, v[i])
        /\ \A i \in 1..Len(v) : v[i].type = "gamestate" => i = Len(v)
    <2>1. CASE v = w
      BY <1>2, <1>4, <2>1
    <2>2. CASE v = Append(w, m)
      <3>1. /\ Len(v) = Len(w) + 1 /\ Len(w) \in Nat /\ v[Len(w) + 1] = m
            /\ \A i \in 1..Len(w) : v[i] = w[i]
        BY <2>2
      <3>2. \A i \in 1..Len(v) : i = Len(w) + 1 \/ i \in 1..Len(w)
        BY <3>1
      <3> QED
        BY <1>2, <1>4, <1>5, <3>1, <3>2
    <2> QED
      BY <2>1, <2>2
  <1>7. GamestateInv(t, c, v)
    BY <1>2, <1>3, <1>6 DEF GamestateInv
  <1>8. /\ \A i \in 1..Len(c.commands) : CommandInv(t, c, web, i)
        /\ WindowInv(t) /\ AnswerInv(t, c) /\ ListInv(t, c)
    BY CommandsKept DEF Protocol
  <1>9. ClientInv(t, c)
    <2>1. ClientInv(s, c)
      BY DEF Protocol
    <2>2. ASSUME c.downloadName # None PROVE ~Served(s, c) /\ ~Fetching(s, c)
      BY <1>2, <2>2 DEF Served, Fetching
    <2>3. Failed(s, c) => Failed(t, c)
      BY <1>2, <1>3 DEF Failed
    <2>4. Skipped(s, c) => Skipped(t, c)
      BY <1>3 DEF Skipped
    <2> QED
      BY <2>1, <2>2, <2>3, <2>4 DEF ClientInv
  <1> QED
    BY <1>6, <1>7, <1>8, <1>9 DEF Protocol

\* The commands of a client at an old level are skipped, and a gamestate is due unless one
\* is under way.
LEMMA CommandsSkipped ==
    ASSUME NEW s \in Servers, NEW t \in Servers, NEW c \in Clients, NEW d \in Clients,
           NEW w \in Seq(Messages), NEW web \in Mirrors,
           Protocol(s, c, w, web), SameServer(s, t), t.state = s.state,
           OpenHasName(s), s.downloadName = None,
           t.gamestate => \A i \in 1..Len(w) : w[i].type # "gamestate",
           SameClient(c, d), Len(d.commands) = 0
    PROVE  Protocol(t, d, w, web)
  <1>1. /\ t.downloadName = None /\ t.download = FALSE /\ s.download = FALSE
        /\ t.bWWWing = s.bWWWing
    BY DEF SameServer, SameFile, SameRedirect, OpenHasName, Servers
  <1>n. 1..Len(d.commands) = {} /\ None \notin Files
    BY DownloadAssumption
  <1>2. ASSUME NEW i \in 1..Len(w) PROVE MessageInv(t, d, web, w[i])
    <2>1. RedirectInv(s, c, web, w[i]) /\ BlockInv(s, c, w[i])
      BY DEF Protocol, MessageInv
    <2>2. RedirectInv(t, d, web, w[i])
      BY <1>1, <1>n, <2>1 DEF RedirectInv, Unasked, SameClient
    <2>3. BlockInv(t, d, w[i])
      BY <1>1, <1>n, <2>1 DEF BlockInv, Unasked, SameClient
    <2> QED
      BY <2>2, <2>3 DEF MessageInv
  <1>3. GamestateInv(t, d, w)
    <2>1. GamestateInv(s, c, w)
      BY DEF Protocol
    <2> QED
      BY <1>1, <1>n, <2>1 DEF GamestateInv
  <1>4. t.state # "dropped" /\ WindowInv(t)
    BY CommandsKept DEF Protocol
  <1>5. AnswerInv(t, d)
    <2>1. ~t.bWWWing
      BY <1>1, <1>4 DEF WindowInv
    <2> QED
      BY <2>1 DEF AnswerInv
  <1>6. ListInv(t, d)
    <2>1. ListInv(s, c)
      BY DEF Protocol
    <2> QED
      BY <1>1, <2>1 DEF ListInv, Unasked, SameClient
  <1>7. ClientInv(t, d)
    <2>1. ClientInv(s, c)
      BY DEF Protocol
    <2>2. ASSUME c.downloadName # None PROVE ~Served(s, c) /\ ~Fetching(s, c)
      BY <2>2 DEF Served, Fetching
    <2>3. Failed(s, c) => Failed(t, d)
      BY <1>1 DEF Failed, SameClient
    <2>4. Skipped(s, c) => Skipped(t, d)
      BY <1>1 DEF Skipped, SameClient
    <2>5. Asked(c) => Skipped(t, d)
      <3> SUFFICES ASSUME Asked(c) PROVE Skipped(t, d)
        OBVIOUS
      <3>1. Len(c.commands) \in 1..Len(c.commands)
        BY DEF Asked, Clients
      <3>2. RequestInv(s, c, Len(c.commands))
        BY <3>1 DEF Protocol, CommandInv, Asked
      <3> QED
        BY <1>1, <3>2 DEF RequestInv, Skipped, SameClient
    <2> QED
      BY <2>1, <2>2, <2>3, <2>4, <2>5 DEF ClientInv, SameClient
  <1> QED
    BY <1>2, <1>3, <1>4, <1>5, <1>6, <1>7, <1>n DEF Protocol

\* A message of the server's keeps the invariant where it keeps the protocol.
LEMMA InvKept ==
    ASSUME sv' \in Servers, OpenHasName(sv'), sv'.gamestate = FALSE, cl' \in Clients,
           toClient' \in Seq(Messages), mirror' = mirror, mirror \in Mirrors,
           ~cl'.mixed => Protocol(sv', cl', toClient', mirror) /\ DiskInv(cl')
    PROVE  Inv'
  BY Zenon DEF Inv, Typed

LEMMA GamestateMessage == [type |-> "gamestate", serverId |-> sv.serverId].type = "gamestate"
  OBVIOUS

LEMMA ExecuteStep ==
    ASSUME Inv, NEW n \in 0..Len(cl.commands), SV_ExecuteClientMessage(n)
    PROVE  Inv'
  <1> DEFINE g == ~GamestateUnderWay
             x == n > 0 /\ cl.commands[n].cmd = "nextdl"
             u == [sv EXCEPT !.gamestate = g, !.nextdl = x]
             t == IF OldGamestate THEN u ELSE Executed(sv, cl, n)
             v == [t EXCEPT !.gamestate = FALSE]
             m == [type |-> "gamestate", serverId |-> sv.serverId]
             d == Rest(cl, n)
  <1>1. /\ sv.state = "connected"
        /\ n < Len(cl.commands) => ~OldGamestate
        /\ sv' = v /\ cl' = d
        /\ IF t.gamestate THEN toClient' \in {toClient, Append(toClient, m)}
           ELSE toClient' = toClient
        /\ mirror' = mirror
    BY DEF SV_ExecuteClientMessage, Executed, Rest, Send
  <1>2. /\ sv \in Servers /\ OpenHasName(sv) /\ sv.gamestate = FALSE
        /\ cl \in Clients /\ toClient \in Seq(Messages) /\ mirror \in Mirrors
    BY DEF Inv, Typed
  <1>3. /\ d \in Clients /\ SameClient(cl, d) /\ d.mixed = cl.mixed
        /\ d.redirected = cl.redirected /\ d.bad = cl.bad /\ d.saved = cl.saved
        /\ Len(d.commands) = Len(cl.commands) - n /\ Len(cl.commands) \in Nat
    BY <1>2, RestType
  <1>4. g \in BOOLEAN /\ x \in BOOLEAN
    OBVIOUS
  <1>5. m \in Messages /\ m.type = "gamestate"
    <2>1. sv.serverId \in Nat
      BY <1>2 DEF Servers
    <2> QED
      BY <2>1 DEF Messages
  <1> HIDE DEF x, m, d
  <1>6. /\ u \in Servers /\ OpenHasName(u) /\ SameServer(sv, u) /\ u.state = sv.state
        /\ u.gamestate = g
    <2> HIDE DEF g
    <2> QED
      BY <1>2, <1>4 DEF Servers, OpenHasName, SameServer, SameFile, SameWindow, SameRedirect
  <1>7. ~cl.mixed => Protocol(sv, cl, toClient, mirror) /\ DiskInv(cl)
    BY DEF Inv
  <1>8. /\ t \in Servers /\ OpenHasName(t)
        /\ ~cl.mixed => Protocol(t, d, toClient, mirror)
    <2>1. CASE OldGamestate
      <3>1. t = u /\ sv.downloadName = None
        BY <2>1 DEF OldGamestate
      <3>2. Len(d.commands) = 0
        BY <1>1, <1>3, <2>1
      <3> HIDE DEF t, u
      <3>3. u.gamestate => \A i \in 1..Len(toClient) : toClient[i].type # "gamestate"
        <4>1. DOMAIN toClient = 1..Len(toClient)
          BY <1>2
        <4> QED
          BY <1>6, <4>1 DEF GamestateUnderWay, g
      <3>4. ~cl.mixed => Protocol(u, d, toClient, mirror)
        BY <1>2, <1>3, <1>6, <1>7, <3>1, <3>2, <3>3, CommandsSkipped
      <3> QED
        BY <1>6, <3>1, <3>4
    <2>2. CASE ~OldGamestate
      <3>1. t = Executed(sv, cl, n)
        BY <2>2
      <3> HIDE DEF t
      <3> QED
        BY <1>1, <1>2, <1>7, <3>1, AllExecuted DEF d
    <2> QED
      BY <2>1, <2>2
  <1> HIDE DEF t
  <1>9. /\ v \in Servers /\ OpenHasName(v) /\ SameServer(t, v) /\ v.state = t.state
        /\ v.gamestate = FALSE /\ t.gamestate \in BOOLEAN
    BY <1>8 DEF Servers, OpenHasName, SameServer, SameFile, SameWindow, SameRedirect
  <1> HIDE DEF v
  <1>10. toClient' \in Seq(Messages)
    BY <1>1, <1>2, <1>5
  <1>11. ~cl.mixed => Protocol(v, d, toClient', mirror)
    <2> SUFFICES ASSUME ~cl.mixed PROVE Protocol(v, d, toClient', mirror)
      OBVIOUS
    <2>1. CASE t.gamestate = TRUE
      BY <1>1, <1>2, <1>3, <1>5, <1>8, <1>9, <1>10, <2>1, GamestateSent
    <2>2. CASE t.gamestate = FALSE
      <3>1. toClient' = toClient
        BY <1>1, <2>2
      <3>2. v.state # "dropped" /\ Protocol(t, d, toClient, mirror)
        BY <1>8, <1>9 DEF Protocol
      <3>3. v.gamestate = t.gamestate
        BY <1>9, <2>2
      <3> QED
        BY <1>9, <3>1, <3>2, <3>3, ServerKept
    <2> QED
      BY <1>9, <2>1, <2>2
  <1>12. ~cl.mixed => DiskInv(d)
    BY <1>3, <1>7 DEF DiskInv
  <1> QED
    BY <1>1, <1>2, <1>3, <1>9, <1>10, <1>11, <1>12, InvKept

LEMMA SpawnStep ==
    ASSUME Inv, SV_SpawnServer
    PROVE  Inv'
  <1> DEFINE x == sv.serverId + 1
             t == [sv EXCEPT !.serverId = x]
  <1>1. sv' = t /\ cl' = cl /\ toClient' = toClient /\ mirror' = mirror
    BY DEF SV_SpawnServer
  <1>2. /\ sv \in Servers /\ OpenHasName(sv) /\ sv.gamestate = FALSE
        /\ cl \in Clients /\ toClient \in Seq(Messages) /\ mirror \in Mirrors
        /\ ~cl.mixed => Protocol(sv, cl, toClient, mirror) /\ DiskInv(cl)
    BY DEF Inv, Typed
  <1>3. x \in Nat
    BY <1>2 DEF Servers
  <1> HIDE DEF x
  <1>4. /\ t \in Servers /\ OpenHasName(t) /\ SameServer(sv, t) /\ t.state = sv.state
        /\ t.gamestate = sv.gamestate
    BY <1>2, <1>3 DEF Servers, OpenHasName, SameServer, SameFile, SameWindow, SameRedirect
  <1> HIDE DEF t
  <1>5. ~cl.mixed => Protocol(t, cl, toClient, mirror)
    <2>1. ~cl.mixed => t.state # "dropped"
      BY <1>2, <1>4 DEF Protocol
    <2> QED
      BY <1>2, <1>4, <2>1, ServerKept
  <1> QED
    BY <1>1, <1>2, <1>4, <1>5, InvKept

LEMMA TimeoutStep ==
    ASSUME Inv, SV_SendClientMessages
    PROVE  Inv'
  <1> DEFINE t == [sv EXCEPT !.state = "timed_out"]
  <1>1. sv' = t /\ cl' = cl /\ toClient' = toClient /\ mirror' = mirror
    BY DEF SV_SendClientMessages
  <1>2. /\ sv \in Servers /\ OpenHasName(sv) /\ sv.gamestate = FALSE
        /\ cl \in Clients /\ toClient \in Seq(Messages) /\ mirror \in Mirrors
        /\ ~cl.mixed => Protocol(sv, cl, toClient, mirror) /\ DiskInv(cl)
    BY DEF Inv, Typed
  <1>3. /\ t \in Servers /\ OpenHasName(t) /\ SameServer(sv, t) /\ t.state = "timed_out"
        /\ t.gamestate = sv.gamestate
    BY <1>2 DEF Servers, OpenHasName, SameServer, SameFile, SameWindow, SameRedirect
  <1> HIDE DEF t
  <1>4. ~cl.mixed => Protocol(t, cl, toClient, mirror)
    BY <1>2, <1>3, ServerKept
  <1> QED
    BY <1>1, <1>2, <1>3, <1>4, InvKept

\* A message that is no gamestate is sent, and lost or not.
LEMMA MessageSent ==
    ASSUME NEW s, NEW c, NEW w \in Seq(Messages), NEW v, NEW m, NEW web,
           Protocol(s, c, w, web), MessageInv(s, c, web, m), m.type # "gamestate",
           s.downloadName # None, v \in {w, Append(w, m)}
    PROVE  Protocol(s, c, v, web)
  <1>1. GamestateInv(s, c, w) /\ \A i \in 1..Len(w) : MessageInv(s, c, web, w[i])
    BY DEF Protocol
  <1>2. ~s.gamestate /\ \A i \in 1..Len(w) : w[i].type # "gamestate"
    BY <1>1 DEF GamestateInv, Coming
  <1>3. ASSUME NEW i \in 1..Len(v) PROVE MessageInv(s, c, web, v[i]) /\ v[i].type # "gamestate"
    <2>1. CASE v = w
      BY <1>1, <1>2, <2>1
    <2>2. CASE v = Append(w, m)
      <3>1. /\ Len(v) = Len(w) + 1 /\ Len(w) \in Nat /\ v[Len(w) + 1] = m
            /\ \A j \in 1..Len(w) : v[j] = w[j]
        BY <2>2
      <3>2. i = Len(w) + 1 \/ i \in 1..Len(w)
        BY <3>1
      <3> QED
        BY <1>1, <1>2, <3>1, <3>2
    <2> QED
      BY <2>1, <2>2
  <1>4. GamestateInv(s, c, v)
    BY <1>2, <1>3 DEF GamestateInv, Coming
  <1> QED
    BY <1>3, <1>4 DEF Protocol

\* Who waits for the file that is open is served.
LEMMA ServedIfOpen ==
    ASSUME NEW s \in Servers, NEW c \in Clients, NEW w, NEW web, Protocol(s, c, w, web),
           s.download, s.downloadName # None, c.downloadName = s.downloadName
    PROVE  Served(s, c)
  <1>1. WindowInv(s) /\ \A i \in 1..Len(c.commands) : CommandInv(s, c, web, i)
    BY DEF Protocol
  <1>2. ~s.bWWWing
    BY <1>1 DEF WindowInv
  <1>3. \A i \in 1..Len(c.commands) :
           c.commands[i].cmd # "wwwdl_ack" /\ c.commands[i].cmd # "wwwdl_fail"
    <2>1. \A i \in 1..Len(c.commands) : c.commands[i].cmd # "wwwdl_ack"
      BY <1>1 DEF CommandInv, AckInv, Redirecting
    <2> SUFFICES ASSUME NEW i \in 1..Len(c.commands), c.commands[i].cmd = "wwwdl_fail"
                 PROVE  FALSE
      BY <2>1
    <2>2. Answered(s, c, i)
      BY <1>1 DEF CommandInv
    <2>3. i = 2 /\ 1 \in 1..Len(c.commands)
      BY <1>2, <2>2 DEF Answered, Clients
    <2> QED
      BY <1>2, <2>1, <2>2, <2>3 DEF Answered
  <1>4. Len(c.commands) > 0 => Len(c.commands) \in 1..Len(c.commands)
    BY DEF Clients
  <1>5. ~Asked(c)
    BY <1>1, <1>4 DEF Asked, CommandInv, RequestInv
  <1>6. ~Failed(s, c) /\ ~Skipped(s, c)
    BY <1>3, <1>4 DEF Failed, Skipped
  <1>7. ~Fetching(s, c)
    BY <1>2, <1>3 DEF Fetching
  <1> QED
    BY <1>5, <1>6, <1>7 DEF Protocol, ClientInv

\* The file is opened.
Opens(s, t) ==
    /\ ~s.download /\ s.downloadName # None /\ ~s.bWWWing
    /\ t.state = s.state /\ t.gamestate = s.gamestate
    /\ t.downloadName = s.downloadName /\ t.download = TRUE
    /\ t.bWWWing = s.bWWWing
    /\ t.clientBlock = 0 /\ t.currentBlock = 0 /\ t.xmitBlock = 0

LEMMA FileOpened ==
    ASSUME NEW s \in Servers, NEW t \in Servers, NEW c \in Clients, NEW w, NEW web,
           Protocol(s, c, w, web), Opens(s, t), ~Redirecting(s, web)
    PROVE  Protocol(t, c, w, web)
  <1>1. s.downloadName \in Files
    BY DEF Opens, Servers, Named
  <1>2. \A i \in 1..Len(c.commands) : CommandInv(s, c, web, i)
    BY DEF Protocol
  <1>3. \A i \in 1..Len(c.commands) : c.commands[i].cmd # "nextdl" /\ c.commands[i].cmd # "wwwdl_ack"
    BY <1>2 DEF CommandInv, NextdlInv, AckInv, Opens
  <1>4. t.state # "dropped" /\ WindowInv(t)
    <2>1. 0 <= Size[s.downloadName] /\ 0 <= Half /\ 0 <= Size[s.downloadName] + 1
      BY <1>1, HalfType, DownloadAssumption
    <2>2. OpenInv(t)
      BY <2>1 DEF OpenInv, Opens
    <2> QED
      BY <2>2, WindowType DEF Protocol, WindowInv, Opens
  <1>5. ASSUME NEW i PROVE AfterClose(s, c, i) = AfterClose(t, c, i)
    BY DEF AfterClose, Closes, Opens
  <1>6. ASSUME NEW i \in 1..Len(c.commands) PROVE CommandInv(t, c, web, i)
    <2>1. CommandInv(s, c, web, i)
      BY <1>2
    <2>2. RequestInv(s, c, i) => RequestInv(t, c, i)
      BY <1>5 DEF RequestInv, Opens
    <2>3. Answered(s, c, i) => Answered(t, c, i)
      BY DEF Answered, Opens
    <2>4. DonedlInv(s, c, i) => DonedlInv(t, c, i)
      BY <1>5 DEF DonedlInv
    <2> QED
      BY <1>3, <2>1, <2>2, <2>3, <2>4 DEF CommandInv
  <1>7. AnswerInv(t, c) /\ ListInv(t, c) /\ GamestateInv(t, c, w)
    <2>1. AnswerInv(s, c) /\ ListInv(s, c) /\ GamestateInv(s, c, w)
      BY DEF Protocol
    <2> QED
      BY <2>1 DEF AnswerInv, ListInv, GamestateInv, Coming, Opens
  <1>8. ClientInv(t, c)
    <2>1. ClientInv(s, c)
      BY DEF Protocol
    <2>2. Served(s, c) => Served(t, c)
      <3> SUFFICES ASSUME Served(s, c) PROVE Served(t, c)
        OBVIOUS
      <3>1. Len(c.commands) = 0
        <4> SUFFICES ASSUME Len(c.commands) # 0 PROVE FALSE
          OBVIOUS
        <4>1. 1 \in 1..Len(c.commands)
          BY DEF Clients
        <4> QED
          BY <1>3, <4>1 DEF Served
      <3>2. c.downloadBlock = 0
        BY DEF Served, Opens
      <3> QED
        BY <3>1, <3>2 DEF Served, Opens
    <2>3. Fetching(s, c) => Fetching(t, c)
      BY DEF Fetching, Opens
    <2>4. Failed(s, c) => Failed(t, c)
      BY DEF Failed, Opens
    <2>5. Skipped(s, c) => Skipped(t, c)
      BY DEF Skipped, Opens
    <2> QED
      BY <2>1, <2>2, <2>3, <2>4, <2>5 DEF ClientInv
  <1>9. ASSUME NEW i \in 1..Len(w) PROVE MessageInv(t, c, web, w[i])
    <2>1. RedirectInv(s, c, web, w[i]) /\ BlockInv(s, c, w[i])
      BY DEF Protocol, MessageInv
    <2>2. RedirectInv(t, c, web, w[i])
      BY <2>1 DEF RedirectInv
    <2>3. BlockInv(t, c, w[i])
      BY <2>1 DEF BlockInv, Opens
    <2> QED
      BY <2>2, <2>3 DEF MessageInv
  <1> QED
    BY <1>4, <1>6, <1>7, <1>8, <1>9 DEF Protocol

\* Blocks are read into the window, and one is sent.
Grows(s, t) ==
    /\ t.state = s.state /\ t.gamestate = s.gamestate
    /\ SameFile(s, t) /\ SameRedirect(s, t)
    /\ t.clientBlock = s.clientBlock /\ s.currentBlock <= t.currentBlock /\ WindowInv(t)

LEMMA WindowGrown ==
    ASSUME NEW s \in Servers, NEW t \in Servers, NEW c \in Clients,
           NEW w \in Seq(Messages), NEW web, Protocol(s, c, w, web), Grows(s, t)
    PROVE  Protocol(t, c, w, web)
  <1>1. /\ t.downloadName = s.downloadName /\ t.download = s.download
        /\ t.clientBlock = s.clientBlock
        /\ t.bWWWDl = s.bWWWDl /\ t.bWWWing = s.bWWWing /\ t.bFallback = s.bFallback
    BY DEF Grows, SameFile, SameRedirect
  <1>2. /\ s.currentBlock \in Nat /\ t.currentBlock \in Nat /\ s.currentBlock <= t.currentBlock
        /\ Shorts \in Nat
    BY HalfType DEF Servers, Grows
  <1>3. ASSUME NEW i PROVE AfterClose(s, c, i) = AfterClose(t, c, i)
    BY <1>1 DEF AfterClose, Closes
  <1>4. Redirecting(s, web) = Redirecting(t, web)
    BY <1>1 DEF Redirecting
  <1>5. ASSUME NEW i \in 1..Len(c.commands) PROVE CommandInv(t, c, web, i)
    <2>1. CommandInv(s, c, web, i) /\ c.commands[i] \in Commands
      BY DEF Protocol, Clients
    <2>2. ASSUME c.commands[i].cmd = "nextdl", NextdlInv(s, c, i) PROVE NextdlInv(t, c, i)
      <3>1. c.commands[i].arg \in Nat
        BY <2>1, <2>2, CommandKinds DEF Plain
      <3> QED
        BY <1>1, <1>2, <2>2, <3>1 DEF NextdlInv
    <2>3. RequestInv(s, c, i) => RequestInv(t, c, i)
      BY <1>1, <1>3 DEF RequestInv
    <2>4. AckInv(s, c, web, i) => AckInv(t, c, web, i)
      BY <1>4 DEF AckInv
    <2>5. Answered(s, c, i) => Answered(t, c, i)
      BY <1>1 DEF Answered
    <2>6. DonedlInv(s, c, i) => DonedlInv(t, c, i)
      BY <1>3 DEF DonedlInv
    <2> QED
      BY <2>1, <2>2, <2>3, <2>4, <2>5, <2>6 DEF CommandInv
  <1>6. AnswerInv(t, c) /\ ListInv(t, c) /\ GamestateInv(t, c, w)
    <2>1. AnswerInv(s, c) /\ ListInv(s, c) /\ GamestateInv(s, c, w)
      BY DEF Protocol
    <2> QED
      BY <1>1, <2>1 DEF AnswerInv, ListInv, GamestateInv, Coming, Grows
  <1>7. ClientInv(t, c)
    <2>1. ClientInv(s, c)
      BY DEF Protocol
    <2>2. Served(s, c) => Served(t, c)
      BY <1>1 DEF Served
    <2>3. Fetching(s, c) => Fetching(t, c)
      BY <1>1 DEF Fetching
    <2>4. Failed(s, c) => Failed(t, c)
      BY <1>1 DEF Failed
    <2>5. Skipped(s, c) => Skipped(t, c)
      BY <1>1 DEF Skipped
    <2> QED
      BY <2>1, <2>2, <2>3, <2>4, <2>5 DEF ClientInv
  <1>8. ASSUME NEW i \in 1..Len(w) PROVE MessageInv(t, c, web, w[i])
    <2>1. RedirectInv(s, c, web, w[i]) /\ BlockInv(s, c, w[i])
      BY DEF Protocol, MessageInv
    <2>2. RedirectInv(t, c, web, w[i])
      BY <1>1, <1>4, <2>1 DEF RedirectInv
    <2>3. Numbered(s, c, w[i]) => Numbered(t, c, w[i])
      BY <1>2 DEF Numbered
    <2>4. BlockInv(t, c, w[i])
      BY <1>1, <2>1, <2>3 DEF BlockInv
    <2> QED
      BY <2>2, <2>4 DEF MessageInv
  <1> QED
    BY <1>5, <1>6, <1>7, <1>8 DEF Protocol, Grows

\* A set of numbers below a bound has a greatest.
LEMMA Greatest ==
    ASSUME NEW e \in Nat, NEW T, T \subseteq 0..e, T # {}
    PROVE  \E k \in T : \A j \in T : j <= k
  <1> DEFINE U == {e - k : k \in T}
  <1>1. U \subseteq Nat /\ U # {}
    <2>1. \A k \in T : e - k \in Nat
      OBVIOUS
    <2>2. PICK k : k \in T
      OBVIOUS
    <2> QED
      BY <2>1, <2>2
  <1>2. IsWellFoundedOn(OpToRel(<, Nat), Nat)
    BY NatLessThanWellFounded
  <1>3. PICK x \in U : \A y \in U : ~(<<y, x>> \in OpToRel(<, Nat))
    <2> HIDE DEF U
    <2> QED
      BY <1>1, <1>2, WFMin
  <1>4. PICK k \in T : x = e - k
    OBVIOUS
  <1>5. ASSUME NEW j \in T PROVE j <= k
    <2>1. j \in Nat /\ k \in Nat /\ e - j \in U /\ e - j \in Nat /\ x \in Nat
      BY <1>1
    <2>2. ~(e - j < x)
      <3> SUFFICES ASSUME e - j < x PROVE FALSE
        OBVIOUS
      <3>1. <<e - j, x>> \in OpToRel(<, Nat)
        BY <2>1 DEF OpToRel
      <3> HIDE DEF U
      <3> QED
        BY <1>3, <2>1, <3>1
    <2> QED
      BY <1>4, <2>1, <2>2
  <1> QED
    BY <1>5

LEMMA LesserOfTwo ==
    ASSUME NEW a \in Nat, NEW b \in Nat
    PROVE  LET e == CHOOSE n \in {a, b} : n <= a /\ n <= b
           IN  e = (IF a <= b THEN a ELSE b)
  <1>1. \E n \in {a, b} : n <= a /\ n <= b
    OBVIOUS
  <1> DEFINE e == CHOOSE n \in {a, b} : n <= a /\ n <= b
  <1>2. e \in {a, b} /\ e <= a /\ e <= b
    BY <1>1
  <1> HIDE DEF e
  <1>3. e = (IF a <= b THEN a ELSE b)
    BY <1>2
  <1> QED
    BY <1>3 DEF e

\* Where reading ends.
End(s) ==
    IF s.clientBlock + MAX_DOWNLOAD_WINDOW <= Size[s.downloadName] + 1
    THEN s.clientBlock + MAX_DOWNLOAD_WINDOW
    ELSE Size[s.downloadName] + 1

\* What is read of the blocks that belong in place i.
Here(s, i) == {k \in s.currentBlock..End(s) - 1 : k % MAX_DOWNLOAD_WINDOW = i}

\* What place i has when the blocks before e are read.
Fill(s, e, i) ==
    LET here == {k \in s.currentBlock..e - 1 : k % MAX_DOWNLOAD_WINDOW = i}
    IN  IF here = {} THEN s.blocks[i]
        ELSE Block(s.downloadName, CHOOSE k \in here : \A j \in here : j <= k)

\* Each place has the last block that belongs there.
Filled(s, t) ==
    \A i \in 0..MAX_DOWNLOAD_WINDOW - 1 :
        \/ Here(s, i) = {} /\ t.blocks[i] = s.blocks[i]
        \/ \E k \in Here(s, i) : /\ t.blocks[i] = Block(s.downloadName, k)
                                 /\ \A j \in Here(s, i) : j <= k

LEMMA BlocksRead ==
    ASSUME NEW s \in Servers, s.downloadName # None
    PROVE  LET t == Read(s)
           IN  /\ t \in Servers /\ End(s) \in Nat
               /\ t.state = s.state /\ t.gamestate = s.gamestate
               /\ t.serverId = s.serverId
               /\ SameFile(s, t) /\ SameRedirect(s, t) /\ t.clientBlock = s.clientBlock
               /\ t.xmitBlock = s.xmitBlock /\ t.currentBlock = End(s) /\ Filled(s, t)
  <1> DEFINE a == s.clientBlock + MAX_DOWNLOAD_WINDOW
             b == Size[s.downloadName] + 1
             e == CHOOSE n \in {a, b} : n <= a /\ n <= b
             x == [i \in DOMAIN s.blocks |-> Fill(s, e, i)]
             y == [i \in 0..MAX_DOWNLOAD_WINDOW - 1 |-> Fill(s, End(s), i)]
             t == [s EXCEPT !.currentBlock = e, !.blocks = x]
  <1>1. s.downloadName \in Files /\ s.clientBlock \in Nat /\ s.currentBlock \in Nat
        /\ s.blocks \in [0..MAX_DOWNLOAD_WINDOW - 1 -> Blocks]
    BY DEF Servers, Named
  <1>2. a \in Nat /\ b \in Nat
    BY <1>1, WindowType, DownloadAssumption
  <1>3. e = End(s)
    <2> HIDE DEF a, b
    <2>1. e = (IF a <= b THEN a ELSE b)
      BY <1>2, LesserOfTwo
    <2> HIDE DEF e
    <2> QED
      BY <2>1 DEF End, a, b
  <1>4. Read(s) = t
    BY DEF Read, Fill
  <1> HIDE DEF e
  <1>5. x = y
    <2>1. DOMAIN s.blocks = 0..MAX_DOWNLOAD_WINDOW - 1
      BY <1>1
    <2> QED
      BY <1>3, <2>1
  <1>6. End(s) \in Nat
    BY <1>2 DEF End
  <1>7. ASSUME NEW i \in 0..MAX_DOWNLOAD_WINDOW - 1, Here(s, i) # {}
        PROVE  \E k \in Here(s, i) : /\ y[i] = Block(s.downloadName, k)
                                     /\ \A j \in Here(s, i) : j <= k
    <2>1. Here(s, i) \subseteq 0..End(s)
      BY <1>1, <1>6 DEF Here
    <2> DEFINE k == CHOOSE k \in Here(s, i) : \A j \in Here(s, i) : j <= k
    <2>2. \E h \in Here(s, i) : \A j \in Here(s, i) : j <= h
      BY <1>6, <1>7, <2>1, Greatest
    <2>3. k \in Here(s, i) /\ \A j \in Here(s, i) : j <= k
      BY <2>2
    <2>4. y[i] = Block(s.downloadName, k)
      BY <1>7, Zenon DEF Fill, Here
    <2> HIDE DEF k, y
    <2> QED
      BY <2>3, <2>4
  <1>8. \A i \in 0..MAX_DOWNLOAD_WINDOW - 1 : Here(s, i) = {} => y[i] = s.blocks[i]
    BY Zenon DEF Fill, Here
  <1>9. y \in [0..MAX_DOWNLOAD_WINDOW - 1 -> Blocks]
    <2>1. ASSUME NEW i \in 0..MAX_DOWNLOAD_WINDOW - 1 PROVE y[i] \in Blocks
      <3>1. CASE Here(s, i) = {}
        BY <1>1, <1>8, <3>1
      <3>2. CASE Here(s, i) # {}
        <4>1. PICK k \in Here(s, i) : y[i] = Block(s.downloadName, k)
          BY <1>7, <3>2
        <4>2. k \in Nat
          BY <1>1, <1>6 DEF Here
        <4>3. Block(s.downloadName, k) \in Blocks
          BY <1>1, <4>2 DEF Block, Blocks
        <4> HIDE DEF y
        <4> QED
          BY <4>1, <4>3
      <3> QED
        BY <3>1, <3>2
    <2>2. y = [i \in 0..MAX_DOWNLOAD_WINDOW - 1 |-> y[i]]
      OBVIOUS
    <2> HIDE DEF y
    <2> QED
      BY <2>1, <2>2
  <1> HIDE DEF x, y
  <1>10. /\ t \in Servers /\ t.state = s.state /\ t.gamestate = s.gamestate
         /\ t.serverId = s.serverId
         /\ SameFile(s, t) /\ SameRedirect(s, t) /\ t.clientBlock = s.clientBlock
         /\ t.xmitBlock = s.xmitBlock /\ t.currentBlock = End(s) /\ t.blocks = y
    BY <1>3, <1>5, <1>6, <1>9 DEF Servers, SameFile, SameRedirect
  <1> HIDE DEF t
  <1>11. Filled(s, t)
    BY <1>7, <1>8, <1>10 DEF Filled
  <1> QED
    BY <1>4, <1>6, <1>10, <1>11

\* Of a window that is in order, reading keeps that.
LEMMA WindowRead ==
    ASSUME NEW s \in Servers, NEW t \in Servers, s.downloadName # None, s.download,
           WindowInv(s), SameFile(s, t), SameRedirect(s, t), t.clientBlock = s.clientBlock,
           t.currentBlock = End(s), Filled(s, t)
    PROVE  /\ s.currentBlock <= t.currentBlock /\ t.clientBlock < t.currentBlock
           /\ t.currentBlock <= t.clientBlock + MAX_DOWNLOAD_WINDOW
           /\ OpenInv(t)
  <1>1. /\ s.downloadName \in Files /\ s.clientBlock \in Nat /\ s.currentBlock \in Nat
        /\ t.downloadName = s.downloadName
        /\ MAX_DOWNLOAD_WINDOW \in Nat \ {0} /\ Size[s.downloadName] \in Nat
    <2>1. s.downloadName \in Files /\ s.clientBlock \in Nat /\ s.currentBlock \in Nat
      BY DEF Servers, Named
    <2> QED
      BY <2>1, WindowType, DownloadAssumption DEF SameFile
  <1>2. OpenInv(s) /\ s.clientBlock <= s.currentBlock
        /\ s.currentBlock <= s.clientBlock + MAX_DOWNLOAD_WINDOW
    BY DEF WindowInv
  <1>3. /\ End(s) \in Nat /\ s.currentBlock <= End(s) /\ s.clientBlock < End(s)
        /\ End(s) <= s.clientBlock + MAX_DOWNLOAD_WINDOW
        /\ End(s) <= Size[s.downloadName] + 1
    BY <1>1, <1>2 DEF End, OpenInv
  <1>4. ASSUME NEW k \in 0..t.currentBlock - 1
        PROVE  PlaceInv(t, k)
    <2> DEFINE i == k % MAX_DOWNLOAD_WINDOW
    <2>1. k \in Nat /\ k < End(s) /\ i \in 0..MAX_DOWNLOAD_WINDOW - 1
      BY <1>3, PlaceType
    <2>2. CASE Here(s, i) = {} /\ t.blocks[i] = s.blocks[i]
      <3>1. k \notin Here(s, i)
        BY <2>2
      <3>2. k < s.currentBlock
        BY <1>1, <1>3, <2>1, <3>1 DEF Here
      <3>3. k \in 0..s.currentBlock - 1
        BY <1>1, <2>1, <3>2
      <3>4. PlaceInv(s, k)
        BY <1>2, <3>3 DEF OpenInv
      <3>5. t.currentBlock <= k + MAX_DOWNLOAD_WINDOW => s.currentBlock <= k + MAX_DOWNLOAD_WINDOW
        BY <1>1, <1>3, <2>1
      <3> QED
        BY <1>1, <2>2, <3>4, <3>5 DEF PlaceInv
    <2>3. CASE \E h \in Here(s, i) : /\ t.blocks[i] = Block(s.downloadName, h)
                                     /\ \A j \in Here(s, i) : j <= h
      <3>1. PICK h \in Here(s, i) : /\ t.blocks[i] = Block(s.downloadName, h)
                                    /\ \A j \in Here(s, i) : j <= h
        BY <2>3
      <3>2. h \in Nat /\ s.currentBlock <= h /\ h < End(s) /\ h % MAX_DOWNLOAD_WINDOW = i
        BY <1>1, <1>3 DEF Here
      <3>3. t.blocks[i].file = t.downloadName
        BY <1>1, <3>1 DEF Block
      <3>4. ASSUME End(s) <= k + MAX_DOWNLOAD_WINDOW PROVE h = k
        <4>1. ~(k < h)
          <5> SUFFICES ASSUME k < h PROVE FALSE
            OBVIOUS
          <5>1. h - k < MAX_DOWNLOAD_WINDOW
            BY <1>1, <1>3, <2>1, <3>2, <3>4
          <5> QED
            BY <2>1, <3>2, <5>1, PlacesApart
        <4>2. ~(h < k)
          <5> SUFFICES ASSUME h < k PROVE FALSE
            OBVIOUS
          <5>1. k \in Here(s, i)
            BY <1>1, <1>3, <2>1, <3>2 DEF Here
          <5> QED
            BY <2>1, <3>1, <3>2, <5>1
        <4> QED
          BY <2>1, <3>2, <4>1, <4>2
      <3> QED
        BY <1>1, <3>1, <3>3, <3>4 DEF PlaceInv
    <2> QED
      BY <2>1, <2>2, <2>3 DEF Filled
  <1>5. OpenInv(t)
    BY <1>1, <1>2, <1>3, <1>4 DEF OpenInv
  <1> QED
    BY <1>3, <1>5

\* The redirect is known to the server, and sent.
LEMMA Redirected ==
    ASSUME NEW s \in Servers, NEW t \in Servers, NEW c \in Clients,
           NEW w \in Seq(Messages), NEW v, NEW m, NEW web \in Mirrors,
           Protocol(s, c, w, web), s.downloadName # None, ~s.bWWWing,
           web[s.downloadName] # "off", ~s.download, ~s.bFallback,
           t.state = s.state, t.gamestate = s.gamestate, SameFile(s, t), SameWindow(s, t),
           t.bWWWDl = TRUE, t.bWWWing = s.bWWWing, t.bFallback = s.bFallback,
           m.type = "www", m.file = s.downloadName, v \in {w, Append(w, m)}
    PROVE  Protocol(t, c, v, web)
  <1>1. /\ t.downloadName = s.downloadName /\ t.download = s.download
        /\ s.downloadName \in Files
    BY DEF SameFile, Servers, Named
  <1>2. Redirecting(t, web)
    BY <1>1 DEF Redirecting
  <1>3. ASSUME NEW i PROVE AfterClose(s, c, i) = AfterClose(t, c, i)
    BY <1>1 DEF AfterClose, Closes
  <1>4. ASSUME NEW i \in 1..Len(c.commands) PROVE CommandInv(t, c, web, i)
    <2>1. CommandInv(s, c, web, i)
      BY DEF Protocol
    <2>2. ~NextdlInv(s, c, i)
      BY DEF NextdlInv
    <2>3. RequestInv(s, c, i) => RequestInv(t, c, i)
      BY <1>1, <1>3 DEF RequestInv
    <2>4. AckInv(s, c, web, i) => AckInv(t, c, web, i)
      BY <1>2 DEF AckInv
    <2>5. Answered(s, c, i) => Answered(t, c, i)
      BY DEF Answered
    <2>6. DonedlInv(s, c, i) => DonedlInv(t, c, i)
      BY <1>3 DEF DonedlInv
    <2> QED
      BY <2>1, <2>2, <2>3, <2>4, <2>5, <2>6 DEF CommandInv
  <1>5. t.state # "dropped" /\ WindowInv(t)
    BY <1>1 DEF Protocol, WindowInv, SameWindow
  <1>6. AnswerInv(t, c) /\ ListInv(t, c) /\ GamestateInv(t, c, w)
    <2>1. AnswerInv(s, c) /\ ListInv(s, c) /\ GamestateInv(s, c, w)
      BY DEF Protocol
    <2> QED
      BY <1>1, <2>1 DEF AnswerInv, ListInv, GamestateInv, Coming
  <1>7. ClientInv(s, c)
    BY DEF Protocol
  <1>8. ClientInv(t, c)
    <2>1. Served(s, c) => Served(t, c)
      BY <1>1 DEF Served
    <2>2. Fetching(s, c) => Fetching(t, c)
      BY <1>1 DEF Fetching
    <2>3. Failed(s, c) => Failed(t, c)
      BY <1>1 DEF Failed
    <2>4. Skipped(s, c) => Skipped(t, c)
      BY <1>1 DEF Skipped
    <2> QED
      BY <1>7, <2>1, <2>2, <2>3, <2>4 DEF ClientInv
  <1>9. ASSUME NEW i \in 1..Len(w) PROVE MessageInv(t, c, web, w[i])
    <2>1. RedirectInv(s, c, web, w[i]) /\ BlockInv(s, c, w[i])
      BY DEF Protocol, MessageInv
    <2>2. RedirectInv(t, c, web, w[i])
      BY <1>1, <1>2, <2>1 DEF RedirectInv
    <2>3. BlockInv(t, c, w[i])
      BY <2>1 DEF BlockInv
    <2> QED
      BY <2>2, <2>3 DEF MessageInv
  <1>10. Protocol(t, c, w, web)
    BY <1>4, <1>5, <1>6, <1>8, <1>9 DEF Protocol
  <1>11. c.downloadName = s.downloadName => c.bWWWDl \/ Len(c.commands) = 0
    <2> SUFFICES ASSUME c.downloadName = s.downloadName PROVE c.bWWWDl \/ Len(c.commands) = 0
      OBVIOUS
    <2>1. Asked(c) \/ Served(s, c) \/ Fetching(s, c) \/ Failed(s, c) \/ Skipped(s, c)
      BY <1>7 DEF ClientInv
    <2>2. ~Asked(c)
      <3> SUFFICES ASSUME Asked(c) PROVE FALSE
        OBVIOUS
      <3>1. Len(c.commands) \in 1..Len(c.commands)
        BY DEF Asked, Clients
      <3>2. RequestInv(s, c, Len(c.commands))
        BY <3>1 DEF Protocol, CommandInv, Asked
      <3> QED
        BY <3>2 DEF RequestInv
    <2>3. ASSUME Served(s, c) PROVE Len(c.commands) = 0
      <3> SUFFICES ASSUME Len(c.commands) # 0 PROVE FALSE
        OBVIOUS
      <3>1. 1 \in 1..Len(c.commands)
        BY DEF Clients
      <3>2. CommandInv(s, c, web, 1)
        BY <3>1 DEF Protocol
      <3> QED
        BY <2>3, <3>1, <3>2 DEF Served, CommandInv, NextdlInv
    <2> QED
      BY <2>1, <2>2, <2>3 DEF Fetching, Failed, Skipped
  <1>12. MessageInv(t, c, web, m)
    <2>1. Unasked(c, s.downloadName)
      BY DEF Protocol, ListInv
    <2> QED
      BY <1>1, <1>2, <1>11, <2>1 DEF MessageInv, RedirectInv, BlockInv
  <1>13. m.type # "gamestate" /\ t.downloadName # None
    BY <1>1
  <1> QED
    BY <1>10, <1>12, <1>13, MessageSent

\* The block that is sent is the one its number says, to who waits for it.
LEMMA BlockSent ==
    ASSUME NEW s \in Servers, s.download, s.downloadName # None, NEW c \in Clients,
           NEW w \in Seq(Messages), NEW v, NEW m, NEW web \in Mirrors, NEW x \in Nat,
           Protocol(s, c, w, web), x < s.currentBlock,
           m.type = "block", m.block = Short(x),
           m.data = s.blocks[x % MAX_DOWNLOAD_WINDOW], v \in {w, Append(w, m)}
    PROVE  Protocol(s, c, v, web)
  <1>1. WindowInv(s) /\ OpenInv(s)
    BY DEF Protocol, WindowInv
  <1>2. /\ s.downloadName \in Files /\ s.clientBlock \in Nat /\ s.currentBlock \in Nat
        /\ MAX_DOWNLOAD_WINDOW \in Nat \ {0} /\ Half \in Nat /\ Shorts = 2 * Half
        /\ MAX_DOWNLOAD_WINDOW <= Half
    BY WindowType, HalfType DEF Servers, Named
  <1>3. PlaceInv(s, x)
    <2>1. x \in 0..s.currentBlock - 1
      BY <1>2
    <2> QED
      BY <1>1, <2>1 DEF OpenInv
  <1>4. m.data.file = s.downloadName
    BY <1>3 DEF PlaceInv
  <1>5. x \in 0..Shorts - 1
    BY <1>1, <1>2 DEF WindowInv, OpenInv
  <1>6. x >= s.clientBlock => m.data = Block(m.data.file, x)
    <2>1. x >= s.clientBlock => s.currentBlock <= x + MAX_DOWNLOAD_WINDOW
      BY <1>1, <1>2 DEF WindowInv
    <2> QED
      BY <1>3, <1>4, <2>1 DEF PlaceInv
  <1>7. c.downloadName = s.downloadName =>
           ~c.bWWWDl /\ (x < s.clientBlock => x < c.downloadBlock)
    <2> SUFFICES ASSUME c.downloadName = s.downloadName
                 PROVE  ~c.bWWWDl /\ (x < s.clientBlock => x < c.downloadBlock)
      OBVIOUS
    <2>1. Served(s, c)
      BY ServedIfOpen
    <2>2. c.downloadBlock = s.clientBlock + Len(c.commands) /\ Len(c.commands) \in Nat
      BY <2>1 DEF Served, Clients
    <2> QED
      BY <1>2, <2>1, <2>2 DEF Served
  <1>8. Numbered(s, c, m) \/ c.downloadName # s.downloadName
    BY <1>2, <1>5, <1>6, <1>7 DEF Numbered
  <1>9. MessageInv(s, c, web, m)
    <2>1. Unasked(c, s.downloadName)
      BY DEF Protocol, ListInv
    <2> QED
      BY <1>2, <1>4, <1>7, <1>8, <2>1 DEF MessageInv, RedirectInv, BlockInv
  <1> QED
    BY <1>9, MessageSent

LEMMA FileSetUp ==
    ASSUME NEW s \in Servers, OpenHasName(s), s.downloadName # None
    PROVE  LET t == SV_SetupDownloadFile(s)
           IN  /\ t \in Servers /\ t.download = TRUE /\ t.downloadName = s.downloadName
               /\ t.state = s.state /\ t.gamestate = s.gamestate
               /\ s.download => t = s
               /\ ~s.download /\ ~s.bWWWing => Opens(s, t)
  <1> DEFINE t == SV_SetupDownloadFile(s)
             u == [s EXCEPT !.download = TRUE, !.bWWWDl = FALSE, !.bFallback = FALSE,
                            !.clientBlock = 0, !.currentBlock = 0, !.xmitBlock = 0]
  <1>1. s.download \in BOOLEAN
    BY DEF Servers
  <1>2. CASE s.download = TRUE
    BY <1>2 DEF SV_SetupDownloadFile
  <1>3. CASE s.download = FALSE
    <2>1. t = u
      BY <1>3 DEF SV_SetupDownloadFile
    <2>2. /\ u \in Servers /\ u.state = s.state /\ u.gamestate = s.gamestate
          /\ u.downloadName = s.downloadName /\ u.download = TRUE
          /\ u.bWWWing = s.bWWWing
          /\ u.clientBlock = 0 /\ u.currentBlock = 0 /\ u.xmitBlock = 0
      BY DEF Servers
    <2> HIDE DEF u, t
    <2>3. ~s.bWWWing => Opens(s, u)
      BY <1>3, <2>2 DEF Opens
    <2>4. /\ t \in Servers /\ t.download = TRUE /\ t.downloadName = s.downloadName
          /\ t.state = s.state /\ t.gamestate = s.gamestate
          /\ ~s.bWWWing => Opens(s, t)
      BY <2>1, <2>2, <2>3
    <2> QED
      BY <1>3, <2>4 DEF t
  <1> QED
    BY <1>1, <1>2, <1>3

LEMMA WriteStep ==
    ASSUME Inv, SV_WriteDownloadToClient
    PROVE  Inv'
  <1>1. /\ sv.state = "connected" /\ sv.downloadName # None /\ ~sv.bWWWing
        /\ cl' = cl /\ mirror' = mirror
    BY DEF SV_WriteDownloadToClient
  <1>2. /\ sv \in Servers /\ OpenHasName(sv) /\ sv.gamestate = FALSE
        /\ cl \in Clients /\ toClient \in Seq(Messages) /\ mirror \in Mirrors
        /\ ~cl.mixed => Protocol(sv, cl, toClient, mirror) /\ DiskInv(cl)
    BY DEF Inv, Typed
  <1>3. sv.downloadName \in Files
    BY <1>1, <1>2 DEF Servers, Named
  <1>4. CASE Redirects
    <2> DEFINE t == [sv EXCEPT !.bWWWDl = TRUE]
               m == [type |-> "www", file |-> sv.downloadName]
    <2>1. sv' = t /\ toClient' \in {toClient, Append(toClient, m)}
      BY <1>4 DEF SV_WriteDownloadToClient, Send
    <2>2. m \in Messages /\ m.type = "www" /\ m.file = sv.downloadName
      BY <1>3 DEF Messages, Named
    <2>3. /\ t \in Servers /\ OpenHasName(t) /\ t.gamestate = sv.gamestate
          /\ t.state = sv.state /\ SameFile(sv, t) /\ SameWindow(sv, t)
          /\ t.bWWWDl = TRUE /\ t.bWWWing = sv.bWWWing /\ t.bFallback = sv.bFallback
      BY <1>2 DEF Servers, OpenHasName, SameFile, SameWindow
    <2> HIDE DEF t, m
    <2>4. toClient' \in Seq(Messages)
      BY <1>2, <2>1, <2>2
    <2>5. mirror[sv.downloadName] # "off" /\ ~sv.download /\ ~sv.bFallback
      BY <1>4 DEF Redirects
    <2>6. ~cl.mixed => Protocol(t, cl, toClient', mirror)
      BY <1>1, <1>2, <2>1, <2>2, <2>3, <2>5, Redirected
    <2> QED
      BY <1>1, <1>2, <2>1, <2>3, <2>4, <2>6, InvKept
  <1>5. CASE ~Redirects
    <2> DEFINE p == SV_SetupDownloadFile(sv)
               s == Read(p)
               x == IF s.xmitBlock = s.currentBlock THEN s.clientBlock ELSE s.xmitBlock
               t == [s EXCEPT !.xmitBlock = x + 1]
               b == s.blocks[x % MAX_DOWNLOAD_WINDOW]
               m == [type |-> "block", block |-> Short(x), data |-> b]
    <2>1. sv' = t /\ toClient' \in {toClient, Append(toClient, m)}
      BY <1>5 DEF SV_WriteDownloadToClient, Send
    <2>2. /\ p \in Servers /\ p.download = TRUE /\ p.downloadName = sv.downloadName
          /\ p.state = sv.state /\ p.gamestate = sv.gamestate
          /\ sv.download => p = sv
          /\ ~sv.download => Opens(sv, p)
      BY <1>1, <1>2, FileSetUp
    <2> HIDE DEF p
    <2>3. /\ s \in Servers /\ End(p) \in Nat
          /\ s.state = p.state /\ s.gamestate = p.gamestate
          /\ SameFile(p, s) /\ SameRedirect(p, s) /\ s.clientBlock = p.clientBlock
          /\ s.xmitBlock = p.xmitBlock /\ s.currentBlock = End(p) /\ Filled(p, s)
      BY <1>1, <2>2, BlocksRead
    <2> HIDE DEF s
    <2>4. x \in Nat /\ x + 1 \in Nat
      BY <2>3 DEF Servers
    <2>5. b \in Blocks
      BY <2>3, <2>4, PlaceType DEF Servers
    <2>6. Short(x) \in Int
      BY <2>4, HalfType DEF Short, Half
    <2> HIDE DEF x, b
    <2>7. m \in Messages /\ m.type = "block" /\ m.block = Short(x) /\ m.data = b
      BY <2>5, <2>6 DEF Messages
    <2>8. /\ t \in Servers /\ t.state = s.state /\ t.gamestate = s.gamestate
          /\ SameFile(s, t) /\ SameRedirect(s, t) /\ t.clientBlock = s.clientBlock
          /\ t.currentBlock = s.currentBlock /\ t.blocks = s.blocks /\ t.xmitBlock = x + 1
      BY <2>3, <2>4 DEF Servers, SameFile, SameRedirect
    <2> HIDE DEF t, m
    <2>9. toClient' \in Seq(Messages)
      BY <1>2, <2>1, <2>7
    <2>10. /\ t.downloadName = sv.downloadName /\ t.download = TRUE /\ t.gamestate = FALSE
           /\ OpenHasName(t)
      BY <1>1, <1>2, <2>2, <2>3, <2>8 DEF SameFile, OpenHasName
    <2>11. ~cl.mixed => Protocol(t, cl, toClient', mirror)
      <3> SUFFICES ASSUME ~cl.mixed PROVE Protocol(t, cl, toClient', mirror)
        OBVIOUS
      <3>1. Protocol(p, cl, toClient, mirror)
        <4>1. CASE sv.download
          BY <1>2, <2>2, <4>1
        <4>2. CASE ~sv.download
          <5>1. ~Redirecting(sv, mirror)
            BY <1>5, <4>2 DEF Redirects, Redirecting
          <5> QED
            BY <1>2, <2>2, <4>2, <5>1, FileOpened
        <4> QED
          BY <4>1, <4>2
      <3>2. WindowInv(p) /\ OpenInv(p)
        BY <2>2, <3>1 DEF Protocol, WindowInv
      <3>3. /\ p.currentBlock <= s.currentBlock /\ s.clientBlock < s.currentBlock
            /\ s.currentBlock <= s.clientBlock + MAX_DOWNLOAD_WINDOW
            /\ OpenInv(s)
        BY <1>1, <2>2, <2>3, <3>2, WindowRead
      <3>4. x < s.currentBlock
        <4>1. p.xmitBlock <= p.currentBlock /\ p.xmitBlock = s.xmitBlock
          BY <2>3, <3>2 DEF WindowInv
        <4>2. s.xmitBlock \in Nat /\ p.currentBlock \in Nat /\ s.currentBlock \in Nat
          BY <2>2, <2>3 DEF Servers
        <4> QED
          BY <3>3, <4>1, <4>2 DEF x
      <3>5. WindowInv(t)
        <4>1. OpenInv(t)
          <5>1. t.downloadName = s.downloadName
            BY <2>8 DEF SameFile
          <5> QED
            BY <2>8, <3>3, <5>1 DEF OpenInv, PlaceInv
        <4>2. t.bWWWing = p.bWWWing /\ t.download = p.download
          BY <2>3, <2>8 DEF SameFile, SameRedirect
        <4>3. ~t.bWWWing
          BY <2>2, <3>2, <4>2 DEF WindowInv
        <4>4. t.xmitBlock <= t.currentBlock /\ t.clientBlock <= t.currentBlock
          <5>1. s.clientBlock \in Nat /\ s.currentBlock \in Nat
            BY <2>3 DEF Servers
          <5> QED
            BY <2>4, <2>8, <3>3, <3>4, <5>1
        <4> QED
          BY <2>8, <3>3, <4>1, <4>3, <4>4 DEF WindowInv
      <3>6. Grows(p, t)
        BY <2>3, <2>8, <3>3, <3>5 DEF Grows, SameFile, SameRedirect
      <3>7. Protocol(t, cl, toClient, mirror)
        BY <1>2, <2>2, <2>8, <3>1, <3>6, WindowGrown
      <3>8. m.data = t.blocks[x % MAX_DOWNLOAD_WINDOW] /\ x < t.currentBlock
        BY <2>7, <2>8, <3>4 DEF b
      <3> QED
        BY <1>1, <1>2, <2>1, <2>4, <2>7, <2>8, <2>10, <3>7, <3>8, BlockSent
    <2> QED
      BY <1>1, <1>2, <2>1, <2>8, <2>9, <2>10, <2>11, InvKept
  <1> QED
    BY <1>4, <1>5

-----------------------------------------------------------------------------
(* The client's steps                                                      *)

SameDisk(c, d) ==
    /\ d.redirected = c.redirected /\ d.bad = c.bad /\ d.saved = c.saved
    /\ d.known = c.known /\ d.mixed = c.mixed

\* A command was appended.
Appended(c, d, m) ==
    /\ Len(d.commands) = Len(c.commands) + 1 /\ Len(c.commands) \in Nat
    /\ d.commands[Len(d.commands)] = m
    /\ \A i \in 1..Len(c.commands) : d.commands[i] = c.commands[i]

LEMMA CommandType ==
    ASSUME NEW cmd, NEW arg,
           \/ cmd = "download" /\ arg \in Files
           \/ cmd = "nextdl" /\ arg \in Nat
           \/ cmd \in Plain /\ arg = None
    PROVE  [cmd |-> cmd, arg |-> arg] \in Commands
  BY DEF Commands

LEMMA CommandAdded ==
    ASSUME NEW c \in Clients, NEW cmd, NEW arg, [cmd |-> cmd, arg |-> arg] \in Commands
    PROVE  LET d == CL_AddReliableCommand(c, cmd, arg)
           IN  /\ d \in Clients /\ SameClient(c, d) /\ SameDisk(c, d)
               /\ d.serverId = c.serverId
               /\ Appended(c, d, [cmd |-> cmd, arg |-> arg])
  <1> DEFINE m == [cmd |-> cmd, arg |-> arg]
             q == Append(c.commands, m)
             d == [c EXCEPT !.commands = q]
  <1>1. CL_AddReliableCommand(c, cmd, arg) = d
    BY DEF CL_AddReliableCommand
  <1>2. c.commands \in Seq(Commands) /\ m \in Commands
    BY DEF Clients
  <1> HIDE DEF m
  <1>3. /\ q \in Seq(Commands) /\ Len(q) = Len(c.commands) + 1 /\ Len(c.commands) \in Nat
        /\ q[Len(c.commands) + 1] = m /\ \A i \in 1..Len(c.commands) : q[i] = c.commands[i]
    BY <1>2
  <1> HIDE DEF q
  <1>4. /\ d \in Clients /\ SameClient(c, d) /\ SameDisk(c, d) /\ d.serverId = c.serverId
        /\ d.commands = q
    BY <1>3 DEF Clients, SameClient, SameDisk
  <1> HIDE DEF d
  <1>5. Appended(c, d, m)
    BY <1>3, <1>4 DEF Appended
  <1> QED
    BY <1>1, <1>4, <1>5 DEF m

LEMMA Restarted ==
    ASSUME NEW c \in Clients
    PROVE  LET d == FS_Restart(c)
           IN  /\ d \in Clients /\ SameClient(c, d) /\ d.commands = c.commands
               /\ d.redirected = c.redirected /\ d.bad = c.bad /\ d.saved = c.saved
               /\ d.mixed = c.mixed /\ d.serverId = c.serverId
  <1> DEFINE k == {f \in Files : \E r \in c.saved : r.content = Whole(f)}
             d == [c EXCEPT !.known = k]
  <1>1. FS_Restart(c) = d
    BY DEF FS_Restart
  <1>2. k \in SUBSET Files
    OBVIOUS
  <1> HIDE DEF k
  <1>3. /\ d \in Clients /\ SameClient(c, d) /\ d.commands = c.commands
        /\ d.redirected = c.redirected /\ d.bad = c.bad /\ d.saved = c.saved
        /\ d.mixed = c.mixed /\ d.serverId = c.serverId
    BY <1>2 DEF Clients, SameClient
  <1> QED
    BY <1>1, <1>3

\* What the protocol knows of the client but the file asked for and the state.
SameRest(c, d) ==
    /\ d.open = c.open /\ d.temp = c.temp /\ d.bWWWDl = c.bWWWDl /\ d.fetching = c.fetching
    /\ d.redirected = c.redirected /\ d.bad = c.bad /\ d.saved = c.saved
    /\ d.mixed = c.mixed

\* The next file is asked for.
Asks(c, d) ==
    /\ c.downloadList # <<>> /\ SameRest(c, d) /\ d.state = c.state
    /\ d.downloadName = Head(c.downloadList) /\ d.downloadList = Tail(c.downloadList)
    /\ d.downloadBlock = 0 /\ d.downloadRestart
    /\ Appended(c, d, [cmd |-> "download", arg |-> Head(c.downloadList)])

\* The gamestate is asked for.
Ends(c, d) ==
    /\ c.downloadList = <<>> /\ c.downloadRestart /\ SameRest(c, d) /\ d.state = c.state
    /\ d.downloadName = None /\ d.downloadList = <<>>
    /\ Appended(c, d, [cmd |-> "donedl", arg |-> None])

\* The level is loaded.
Loads(c, d) ==
    /\ c.downloadList = <<>> /\ ~c.downloadRestart /\ SameRest(c, d) /\ d.state = "loading"
    /\ d.downloadName = c.downloadName /\ d.downloadList = <<>>
    /\ d.commands = c.commands

LEMMA NextDownload ==
    ASSUME NEW c \in Clients
    PROVE  LET d == Com_NextDownload(c)
           IN  d \in Clients /\ (Asks(c, d) \/ Ends(c, d) \/ Loads(c, d))
  <1> DEFINE d == Com_NextDownload(c)
  <1> SUFFICES d \in Clients /\ (Asks(c, d) \/ Ends(c, d) \/ Loads(c, d))
    OBVIOUS
  <1>t. c.downloadList \in Seq(Files) /\ c.downloadRestart \in BOOLEAN
    BY DEF Clients
  <1>1. CASE c.downloadList # <<>>
    <2> DEFINE h == Head(c.downloadList)
               l == Tail(c.downloadList)
               e == [c EXCEPT !.downloadName = h, !.downloadList = l,
                              !.downloadBlock = 0, !.downloadRestart = TRUE]
    <2>1. d = CL_AddReliableCommand(e, "download", h)
      BY <1>1 DEF Com_NextDownload
    <2>2. h \in Files /\ l \in Seq(Files)
      BY <1>1, <1>t
    <2> HIDE DEF h, l
    <2>3. /\ e \in Clients /\ SameRest(c, e) /\ e.state = c.state
          /\ e.downloadName = h /\ e.downloadList = l
          /\ e.downloadBlock = 0 /\ e.downloadRestart = TRUE /\ e.commands = c.commands
      BY <2>2 DEF Clients, SameRest, Named
    <2> HIDE DEF e, d
    <2>4. [cmd |-> "download", arg |-> h] \in Commands
      BY <2>2, CommandType
    <2>5. /\ d \in Clients /\ SameClient(e, d) /\ SameDisk(e, d)
          /\ Appended(e, d, [cmd |-> "download", arg |-> h])
      BY <2>1, <2>3, <2>4, CommandAdded
    <2>6. Appended(c, d, [cmd |-> "download", arg |-> h])
      BY <2>3, <2>5 DEF Appended
    <2>7. Asks(c, d)
      BY <1>1, <2>3, <2>5, <2>6 DEF Asks, SameRest, SameClient, SameDisk, h, l
    <2> QED
      BY <2>5, <2>7
  <1>2. CASE c.downloadList = <<>> /\ c.downloadRestart = TRUE
    <2> DEFINE e == [c EXCEPT !.downloadRestart = FALSE, !.downloadName = None]
               r == FS_Restart(e)
    <2>1. d = CL_AddReliableCommand(r, "donedl", None)
      BY <1>2 DEF Com_NextDownload, Com_DownloadsComplete
    <2>2. /\ e \in Clients /\ SameRest(c, e) /\ e.state = c.state
          /\ e.downloadName = None /\ e.downloadList = c.downloadList
          /\ e.commands = c.commands
      BY DEF Clients, SameRest, Named
    <2> HIDE DEF e
    <2>3. /\ r \in Clients /\ SameClient(e, r) /\ r.commands = e.commands
          /\ r.redirected = e.redirected /\ r.bad = e.bad /\ r.saved = e.saved
          /\ r.mixed = e.mixed
      BY <2>2, Restarted
    <2> HIDE DEF r, d
    <2>4. [cmd |-> "donedl", arg |-> None] \in Commands
      BY CommandType DEF Plain
    <2>5. /\ d \in Clients /\ SameClient(r, d) /\ SameDisk(r, d)
          /\ Appended(r, d, [cmd |-> "donedl", arg |-> None])
      BY <2>1, <2>3, <2>4, CommandAdded
    <2>6. Appended(c, d, [cmd |-> "donedl", arg |-> None])
      BY <2>2, <2>3, <2>5 DEF Appended
    <2>7. Ends(c, d)
      BY <1>2, <2>2, <2>3, <2>5, <2>6 DEF Ends, SameRest, SameClient, SameDisk
    <2> QED
      BY <2>5, <2>7
  <1>3. CASE c.downloadList = <<>> /\ c.downloadRestart = FALSE
    <2> DEFINE e == [c EXCEPT !.state = "loading"]
    <2>1. d = e
      BY <1>3 DEF Com_NextDownload, Com_DownloadsComplete
    <2>2. /\ e \in Clients /\ SameRest(c, e) /\ e.state = "loading"
          /\ e.downloadName = c.downloadName /\ e.downloadList = c.downloadList
          /\ e.commands = c.commands
      BY DEF Clients, SameRest
    <2> HIDE DEF e, d
    <2>3. Loads(c, d)
      BY <1>3, <2>1, <2>2 DEF Loads, SameRest
    <2> QED
      BY <2>1, <2>2, <2>3
  <1> QED
    BY <1>t, <1>1, <1>2, <1>3

\* A client between two files: what it has sent closes the last one, and nothing of
\* the files still to come is under way.
Ready(s, e, w, web) ==
    /\ s.state # "dropped" /\ WindowInv(s) /\ ~Coming(s, w)
    /\ \A i \in 1..Len(e.commands) :
          /\ e.commands[i].cmd \in {"nextdl", "stopdl", "wwwdl_ack", "wwwdl_done"}
          /\ CommandInv(s, e, web, i)
    /\ AnswerInv(s, e) /\ AfterClose(s, e, Len(e.commands) + 1)
    /\ e.state = "connected" /\ ~e.open /\ ~e.bWWWDl /\ e.fetching = None
    /\ e.downloadRestart \/ e.downloadName = None
    /\ \A i, j \in 1..Len(e.downloadList) : e.downloadList[i] = e.downloadList[j] => i = j
    /\ Unasked(e, s.downloadName)
    /\ \A i \in 1..Len(w) :
          /\ w[i].type = "www" => w[i].file \in Files /\ Unasked(e, w[i].file)
          /\ w[i].type = "block" => w[i].data.file \in Files /\ Unasked(e, w[i].data.file)

\* The commands sent keep their places when one is appended.
LEMMA PlacesKept ==
    ASSUME NEW s, NEW c, NEW d, NEW m, Appended(c, d, m)
    PROVE  /\ \A i \in 1..Len(c.commands) :
                 AfterClose(s, d, i) = AfterClose(s, c, i)
           /\ AfterClose(s, d, Len(d.commands)) = AfterClose(s, c, Len(c.commands) + 1)
           /\ \A i \in 1..Len(d.commands) : i = Len(d.commands) \/ i \in 1..Len(c.commands)
  <1>1. /\ Len(d.commands) = Len(c.commands) + 1 /\ Len(c.commands) \in Nat
        /\ \A i \in 1..Len(c.commands) : d.commands[i] = c.commands[i]
    BY DEF Appended
  <1>2. ASSUME NEW i \in 1..Len(c.commands) + 1 PROVE AfterClose(s, d, i) = AfterClose(s, c, i)
    <2>1. i = 1 \/ i - 1 \in 1..Len(c.commands)
      BY <1>1
    <2> QED
      BY <1>1, <2>1 DEF AfterClose
  <1>3. \A i \in 1..Len(c.commands) : i \in 1..Len(c.commands) + 1
    BY <1>1
  <1>4. Len(c.commands) + 1 \in 1..Len(c.commands) + 1
    BY <1>1
  <1> QED
    BY <1>1, <1>2, <1>3, <1>4

LEMMA ListOfTail ==
    ASSUME NEW l \in Seq(Files), l # <<>>
    PROVE  /\ Len(Tail(l)) = Len(l) - 1 /\ Len(l) \in Nat \ {0} /\ 1 \in 1..Len(l)
           /\ Head(l) = l[1] /\ Head(l) \in Files
           /\ \A i \in 1..Len(Tail(l)) : /\ Tail(l)[i] = l[i + 1] /\ i + 1 \in 1..Len(l)
                                         /\ i + 1 # 1
  OBVIOUS

\* Between two files a client asks for the next, or for the gamestate, or is done.
LEMMA NextDownloadKept ==
    ASSUME NEW s \in Servers, NEW e \in Clients, NEW w \in Seq(Messages), NEW web \in Mirrors,
           Ready(s, e, w, web)
    PROVE  /\ Com_NextDownload(e) \in Clients
           /\ SameRest(e, Com_NextDownload(e))
           /\ Protocol(s, Com_NextDownload(e), w, web)
  <1> DEFINE d == Com_NextDownload(e)
             n == Len(e.commands)
  <1> SUFFICES d \in Clients /\ SameRest(e, d) /\ Protocol(s, d, w, web)
    OBVIOUS
  <1>1. d \in Clients /\ (Asks(e, d) \/ Ends(e, d) \/ Loads(e, d))
    BY NextDownload
  <1> HIDE DEF d
  <1>2. SameRest(e, d) /\ ~d.open /\ ~d.bWWWDl /\ d.fetching = None
    BY <1>1 DEF Asks, Ends, Loads, SameRest, Ready
  <1>3. None \notin Files /\ e.downloadList \in Seq(Files) /\ n \in Nat /\ d.open = FALSE
    BY <1>1, <1>2, DownloadAssumption DEF Clients
  <1>4. ~s.bWWWing \/ n > 0
    BY DEF Ready, AnswerInv
  <1>5. \A i \in 1..n : e.commands[i].cmd = "wwwdl_ack" => n > 1 /\ n # 1
    <2> SUFFICES ASSUME NEW i \in 1..n, e.commands[i].cmd = "wwwdl_ack"
                 PROVE  n > 1 /\ n # 1
      OBVIOUS
    <2>1. AckInv(s, e, web, i)
      BY DEF Ready, CommandInv
    <2>2. n # 1
      BY <2>1 DEF AckInv, Ready
    <2>3. n \in Nat /\ i \in 1..n
      BY <1>3
    <2> HIDE DEF n
    <2> QED
      BY <2>2, <2>3
  \* The commands already sent, with what follows them.
  <1>6. ASSUME NEW m, Appended(e, d, m), NEW i \in 1..n
        PROVE  CommandInv(s, d, web, i)
    <2>1. /\ e.commands[i].cmd \in {"nextdl", "stopdl", "wwwdl_ack", "wwwdl_done"}
          /\ CommandInv(s, e, web, i)
      BY DEF Ready
    <2>2. /\ Len(d.commands) = n + 1 /\ \A j \in 1..n : d.commands[j] = e.commands[j]
      BY <1>6 DEF Appended
    <2>3. NextdlInv(s, e, i) => NextdlInv(s, d, i)
      <3>1. \A j \in 1..i - 1 : j \in 1..n
        BY <1>3
      <3> QED
        BY <2>2, <3>1 DEF NextdlInv
    <2>4. e.commands[i].cmd = "wwwdl_ack" /\ AckInv(s, e, web, i) => AckInv(s, d, web, i)
      <3> SUFFICES ASSUME e.commands[i].cmd = "wwwdl_ack", AckInv(s, e, web, i)
                   PROVE  AckInv(s, d, web, i)
        OBVIOUS
      <3>1. n > 1
        BY <1>5
      <3>2. 2 \in 1..n /\ Len(d.commands) # 1
        BY <1>3, <2>2, <3>1
      <3> QED
        BY <2>2, <3>1, <3>2 DEF AckInv
    <2>5. Answered(s, e, i) => Answered(s, d, i)
      <3>1. i = 2 => 1 \in 1..n
        BY <1>3
      <3> QED
        BY <2>2, <3>1 DEF Answered
    <2> QED
      BY <2>1, <2>2, <2>3, <2>4, <2>5 DEF CommandInv
  <1>7. ASSUME NEW m, Appended(e, d, m) PROVE AnswerInv(s, d)
    <2>1. Len(d.commands) = n + 1 /\ \A j \in 1..n : d.commands[j] = e.commands[j]
      BY <1>7 DEF Appended
    <2>2. n > 0 => 1 \in 1..n
      BY <1>3
    <2>3. AnswerInv(s, e)
      BY DEF Ready
    <2>4. Len(d.commands) > 0
      BY <1>3, <2>1
    <2> QED
      BY <1>4, <2>1, <2>2, <2>3, <2>4 DEF AnswerInv
  <1>8. GamestateInv(s, d, w)
    BY DEF Ready, Coming, GamestateInv
  <1>9. \A i \in 1..Len(w) :
           /\ w[i].type = "www" => w[i].file \in Files /\ Unasked(e, w[i].file)
           /\ w[i].type = "block" => w[i].data.file \in Files /\ Unasked(e, w[i].data.file)
    BY DEF Ready
  <1>10. CASE Asks(e, d)
    <2> DEFINE h == Head(e.downloadList)
               m == [cmd |-> "download", arg |-> h]
    <2>1. /\ d.downloadName = h /\ d.downloadList = Tail(e.downloadList)
          /\ d.downloadBlock = 0 /\ d.downloadRestart /\ Appended(e, d, m)
          /\ d.state = "connected"
      BY <1>10 DEF Asks, Ready
    <2>2. /\ h = e.downloadList[1] /\ h \in Files /\ 1 \in 1..Len(e.downloadList)
          /\ \A i \in 1..Len(d.downloadList) : /\ d.downloadList[i] = e.downloadList[i + 1]
                                               /\ i + 1 \in 1..Len(e.downloadList)
                                               /\ i + 1 # 1 /\ i \in Nat
      BY <1>3, <1>10, <2>1, ListOfTail DEF Asks
    <2>3. \A f : Unasked(e, f) => f # h /\ Unasked(d, f)
      BY <2>2 DEF Unasked
    <2>4. ListInv(s, d)
      <3>1. \A i, j \in 1..Len(d.downloadList) : d.downloadList[i] = d.downloadList[j] => i = j
        <4> SUFFICES ASSUME NEW i \in 1..Len(d.downloadList), NEW j \in 1..Len(d.downloadList),
                            d.downloadList[i] = d.downloadList[j]
                     PROVE  i = j
          OBVIOUS
        <4>1. i + 1 = j + 1
          BY <2>2 DEF Ready
        <4> QED
          BY <2>2, <4>1
      <3>2. Unasked(d, h)
        BY <2>2 DEF Unasked, Ready
      <3> QED
        BY <2>1, <2>3, <3>1, <3>2 DEF ListInv, Ready
    <2>5. /\ Len(d.commands) = n + 1 /\ m.cmd = "download" /\ m.arg = h
          /\ d.commands[Len(d.commands)] = m
      BY <2>1 DEF Appended
    <2>6. CommandInv(s, d, web, Len(d.commands))
      <3>1. AfterClose(s, d, Len(d.commands))
        <4>1. AfterClose(s, d, Len(d.commands)) = AfterClose(s, e, Len(e.commands) + 1)
          BY <2>1, PlacesKept
        <4> QED
          BY <4>1 DEF Ready
      <3>2. d.downloadName # s.downloadName
        BY <2>1, <2>3 DEF Ready
      <3>3. RequestInv(s, d, Len(d.commands))
        BY <1>2, <2>1, <2>5, <3>1, <3>2 DEF RequestInv
      <3> QED
        BY <2>5, <3>3 DEF CommandInv
    <2>7. \A i \in 1..Len(d.commands) : CommandInv(s, d, web, i)
      <3>1. \A i \in 1..Len(d.commands) : i = Len(d.commands) \/ i \in 1..n
        BY <2>1, PlacesKept
      <3> QED
        BY <1>6, <2>1, <2>6, <3>1
    <2>8. ClientInv(s, d)
      <3>1. Asked(d)
        BY <1>3, <2>5 DEF Asked
      <3> QED
        BY <1>3, <2>1, <2>2, <3>1 DEF ClientInv
    <2>9. \A i \in 1..Len(w) : MessageInv(s, d, web, w[i])
      BY <1>9, <2>1, <2>3 DEF MessageInv, RedirectInv, BlockInv
    <2> QED
      BY <1>1, <1>2, <1>7, <1>8, <2>1, <2>4, <2>7, <2>8, <2>9 DEF Protocol, Ready
  <1>11. CASE Ends(e, d) \/ Loads(e, d)
    <2>1. d.downloadName = None /\ d.downloadList = <<>> /\ e.downloadList = <<>>
      BY <1>11 DEF Ends, Loads, Ready
    <2>2. ListInv(s, d)
      BY <2>1 DEF ListInv, Unasked
    <2>3. ClientInv(s, d)
      BY <1>2, <2>1 DEF ClientInv
    <2>4. \A i \in 1..Len(w) : MessageInv(s, d, web, w[i])
      <3>1. \A f : Unasked(d, f)
        BY <2>1 DEF Unasked
      <3> QED
        BY <1>3, <1>9, <2>1, <3>1 DEF MessageInv, RedirectInv, BlockInv
    <2>5. AnswerInv(s, d) /\ \A i \in 1..Len(d.commands) : CommandInv(s, d, web, i)
      <3>1. CASE Ends(e, d)
        <4> DEFINE m == [cmd |-> "donedl", arg |-> None]
        <4>1. Appended(e, d, m)
          BY <3>1 DEF Ends
        <4>2. d.commands[Len(d.commands)] = m /\ m.cmd = "donedl" /\ Len(d.commands) = n + 1
          BY <4>1 DEF Appended
        <4>3. DonedlInv(s, d, Len(d.commands))
          <5>1. AfterClose(s, d, Len(d.commands))
            BY <4>1, PlacesKept DEF Ready
          <5>2. Len(d.commands) + 1..Len(d.commands) = {}
            BY <1>3, <4>2
          <5> QED
            BY <2>1, <5>1, <5>2 DEF DonedlInv
        <4>4. CommandInv(s, d, web, Len(d.commands))
          BY <4>2, <4>3 DEF CommandInv
        <4>5. \A i \in 1..Len(d.commands) : i = Len(d.commands) \/ i \in 1..n
          BY <4>1, PlacesKept
        <4> QED
          BY <1>6, <1>7, <4>1, <4>4, <4>5
      <3>2. CASE Loads(e, d)
        <4>1. d.commands = e.commands
          BY <3>2 DEF Loads
        <4>2. AnswerInv(s, d)
          BY <1>2, <4>1 DEF AnswerInv, Ready
        <4>3. ASSUME NEW i \in 1..n PROVE CommandInv(s, d, web, i)
          <5>1. /\ e.commands[i].cmd \in {"nextdl", "stopdl", "wwwdl_ack", "wwwdl_done"}
                /\ CommandInv(s, e, web, i)
            BY DEF Ready
          <5>2. NextdlInv(s, e, i) => NextdlInv(s, d, i)
            BY <4>1 DEF NextdlInv
          <5>3. AckInv(s, e, web, i) => AckInv(s, d, web, i)
            BY <1>2, <4>1 DEF AckInv, Ready
          <5>4. Answered(s, e, i) => Answered(s, d, i)
            BY <4>1 DEF Answered
          <5> QED
            BY <4>1, <5>1, <5>2, <5>3, <5>4 DEF CommandInv
        <4> QED
          BY <4>1, <4>2, <4>3
      <3> QED
        BY <1>11, <3>1, <3>2
    <2> QED
      BY <1>1, <1>2, <1>8, <2>2, <2>3, <2>4, <2>5 DEF Protocol, Ready
  <1> QED
    BY <1>1, <1>10, <1>11

\* A message is taken off the wire.
LEMMA TailKept ==
    ASSUME NEW s, NEW c, NEW w \in Seq(Messages), w # <<>>, NEW web, Protocol(s, c, w, web)
    PROVE  /\ Tail(w) \in Seq(Messages) /\ Head(w) \in Messages
           /\ Protocol(s, c, Tail(w), web) /\ MessageInv(s, c, web, Head(w))
           /\ Head(w).type = "gamestate" => Coming(s, w) /\ ~s.gamestate /\ Tail(w) = <<>>
  <1> DEFINE v == Tail(w)
  <1>1. /\ v \in Seq(Messages) /\ Len(v) = Len(w) - 1 /\ Len(w) \in Nat \ {0}
        /\ Head(w) = w[1] /\ Head(w) \in Messages /\ 1 \in 1..Len(w)
        /\ \A i \in 1..Len(v) : /\ v[i] = w[i + 1] /\ i + 1 \in 1..Len(w)
                                /\ (i + 1 = Len(w) <=> i = Len(v))
    OBVIOUS
  <1>e. 1 = Len(w) => v = <<>>
    <2> HIDE DEF v
    <2>1. 1 = Len(w) => Len(v) = 0
      BY <1>1
    <2> QED
      BY <1>1, <2>1
  <1> HIDE DEF v
  <1>2. GamestateInv(s, c, w) /\ \A i \in 1..Len(w) : MessageInv(s, c, web, w[i])
    BY DEF Protocol
  <1>3. GamestateInv(s, c, v)
    <2>1. Coming(s, v) => Coming(s, w)
      BY <1>1 DEF Coming
    <2> QED
      BY <1>1, <1>2, <2>1 DEF GamestateInv
  <1>4. Protocol(s, c, v, web)
    BY <1>1, <1>2, <1>3 DEF Protocol
  <1>5. Head(w).type = "gamestate" => Coming(s, w) /\ ~s.gamestate /\ v = <<>>
    BY <1>1, <1>2, <1>e DEF GamestateInv, Coming
  <1> QED
    BY <1>1, <1>2, <1>4, <1>5 DEF v

\* A client that waits for no file wants no more of it.
LEMMA StopdlSent ==
    ASSUME NEW s \in Servers, NEW c \in Clients, NEW d \in Clients,
           NEW w \in Seq(Messages), NEW web, Protocol(s, c, w, web), c.downloadName = None,
           SameClient(c, d), Appended(c, d, [cmd |-> "stopdl", arg |-> None])
    PROVE  Protocol(s, d, w, web)
  <1> DEFINE n == Len(c.commands)
             m == [cmd |-> "stopdl", arg |-> None]
  <1>1. /\ Len(d.commands) = n + 1 /\ n \in Nat
        /\ d.commands[n + 1] = m /\ \A i \in 1..n : d.commands[i] = c.commands[i]
    BY DEF Appended
  <1>2. m.cmd = "stopdl"
    OBVIOUS
  <1> HIDE DEF m
  <1>3. \A i \in 1..Len(d.commands) : i = n + 1 \/ i \in 1..n
    BY <1>1
  <1>4. c.fetching = None /\ None \notin Files
    BY DownloadAssumption DEF Protocol, ClientInv
  <1>5. ASSUME NEW i \in 1..n PROVE CommandInv(s, d, web, i)
    <2>1. CommandInv(s, c, web, i) /\ c.commands[i] \in Commands
      BY DEF Protocol, Clients
    <2>2. NextdlInv(s, c, i) => NextdlInv(s, d, i)
      <3>1. \A j \in 1..i - 1 : j \in 1..n
        BY <1>1
      <3> QED
        BY <1>1, <3>1 DEF NextdlInv
    <2>3. c.commands[i].cmd # "download"
      <3>1. c.commands[i].cmd = "download" => c.commands[i].arg \in Files
        BY <2>1, CommandKinds DEF Plain
      <3> QED
        BY <1>4, <2>1, <3>1 DEF CommandInv, RequestInv
    <2>4. AckInv(s, c, web, i) => AckInv(s, d, web, i)
      <3> SUFFICES ASSUME AckInv(s, c, web, i) PROVE AckInv(s, d, web, i)
        OBVIOUS
      <3>1. n # 1 /\ i = 1
        BY <1>4 DEF AckInv
      <3>2. n > 1 /\ 2 \in 1..n /\ Len(d.commands) # 1
        <4>1. n \in Nat /\ n # 1 /\ i \in 1..n /\ Len(d.commands) = n + 1
          BY <1>1, <3>1
        <4> HIDE DEF n
        <4> QED
          BY <4>1
      <3> QED
        BY <1>1, <3>2 DEF AckInv
    <2>5. Answered(s, c, i) => Answered(s, d, i)
      <3>1. i = 2 => 1 \in 1..n
        BY <1>1
      <3> QED
        BY <1>1, <3>1 DEF Answered
    <2>6. DonedlInv(s, c, i) => DonedlInv(s, d, i)
      <3>1. AfterClose(s, d, i) = AfterClose(s, c, i)
        BY PlacesKept
      <3>2. \A j \in i + 1..Len(d.commands) : j = n + 1 \/ j \in i + 1..n
        BY <1>1
      <3>3. \A j \in i + 1..n : j \in 1..n
        BY <1>1
      <3> QED
        BY <1>1, <1>2, <3>1, <3>2, <3>3 DEF DonedlInv, SameClient
    <2> QED
      BY <1>1, <2>1, <2>2, <2>3, <2>4, <2>5, <2>6 DEF CommandInv
  <1>6. CommandInv(s, d, web, n + 1)
    BY <1>1, <1>2 DEF CommandInv
  <1>7. AnswerInv(s, d)
    <2>1. AnswerInv(s, c)
      BY DEF Protocol
    <2>2. s.bWWWing => n > 0
      BY <1>4, <2>1 DEF AnswerInv
    <2>3. n > 0 => 1 \in 1..n
      BY <1>1
    <2>4. Len(d.commands) > 0
      BY <1>1
    <2> QED
      BY <1>1, <2>1, <2>2, <2>3, <2>4 DEF AnswerInv
  <1>8. GamestateInv(s, d, w)
    <2>1. GamestateInv(s, c, w)
      BY DEF Protocol
    <2> QED
      BY <1>1, <1>2, <1>3, <2>1 DEF GamestateInv
  <1>9. ClientInv(s, d) /\ ListInv(s, d)
    BY DEF Protocol, ClientInv, ListInv, Unasked, SameClient
  <1>10. ASSUME NEW i \in 1..Len(w) PROVE MessageInv(s, d, web, w[i])
    <2>1. RedirectInv(s, c, web, w[i]) /\ BlockInv(s, c, w[i])
      BY DEF Protocol, MessageInv
    <2> QED
      BY <1>4, <2>1 DEF MessageInv, RedirectInv, BlockInv, Unasked, SameClient
  <1> QED
    BY <1>3, <1>5, <1>6, <1>7, <1>8, <1>9, <1>10 DEF Protocol

\* The commands of a client that answers a redirect.
LEMMA RedirectKnown ==
    ASSUME NEW s \in Servers, NEW c \in Clients, NEW w, NEW web, NEW m,
           Protocol(s, c, w, web), MessageInv(s, c, web, m), m.type = "www",
           m.file = c.downloadName, ~c.bWWWDl
    PROVE  /\ Len(c.commands) = 0 /\ Redirecting(s, web) /\ s.downloadName = c.downloadName
           /\ c.downloadName \in Files /\ c.fetching = None /\ ~c.open
  <1>1. /\ Len(c.commands) = 0 /\ s.downloadName = c.downloadName /\ Redirecting(s, web)
        /\ c.downloadName \in Files
    BY DEF MessageInv, RedirectInv
  <1>2. ~s.download /\ ~s.bWWWing /\ s.downloadName # None
    BY <1>1 DEF Redirecting
  <1>3. Served(s, c)
    <2>1. Asked(c) \/ Served(s, c) \/ Fetching(s, c) \/ Failed(s, c) \/ Skipped(s, c)
      BY <1>1, <1>2 DEF Protocol, ClientInv
    <2> QED
      BY <1>1, <1>2, <2>1 DEF Asked, Fetching, Failed, Skipped
  <1>4. c.fetching = None /\ c.downloadBlock = 0 /\ c.open = (c.downloadBlock > 0)
    BY <1>2, <1>3 DEF Served, Collected
  <1>5. ~c.open
    <2>1. (0 > 0) = FALSE
      OBVIOUS
    <2> QED
      BY <1>4, <2>1
  <1> QED
    BY <1>1, <1>4, <1>5

\* What the protocol knows of the client's files.
SameFiles(c, d) ==
    /\ d.state = c.state /\ d.downloadName = c.downloadName
    /\ d.downloadList = c.downloadList /\ d.downloadRestart = c.downloadRestart
    /\ d.downloadBlock = c.downloadBlock /\ d.open = c.open

\* The client follows a redirect, or says that it will not.
LEMMA RedirectAnswered ==
    ASSUME NEW s \in Servers, NEW c \in Clients, NEW d \in Clients,
           NEW w \in Seq(Messages), NEW web, NEW m,
           Protocol(s, c, w, web), MessageInv(s, c, web, m), m.type = "www",
           m.file = c.downloadName, ~c.bWWWDl,
           SameFiles(c, d), d.bWWWDl = TRUE,
           \/ /\ d.fetching = c.downloadName /\ Len(d.commands) = 1
              /\ d.commands[1].cmd = "wwwdl_ack"
           \/ /\ d.fetching = None /\ Len(d.commands) = 2
              /\ d.commands[1].cmd = "wwwdl_ack" /\ d.commands[2].cmd = "wwwdl_fail"
    PROVE  Protocol(s, d, w, web)
  <1>1. /\ Len(c.commands) = 0 /\ Redirecting(s, web) /\ s.downloadName = c.downloadName
        /\ c.downloadName \in Files /\ c.fetching = None /\ ~c.open
    BY RedirectKnown
  <1>2. ~s.download /\ ~s.bWWWing /\ s.downloadName # None
    BY <1>1 DEF Redirecting
  <1>3. AckInv(s, d, web, 1)
    BY <1>1, <1>2 DEF AckInv
  <1>4. CommandInv(s, d, web, 1)
    BY <1>3 DEF CommandInv
  <1>5. Len(d.commands) = 2 => CommandInv(s, d, web, 2)
    <2> SUFFICES ASSUME Len(d.commands) = 2 PROVE CommandInv(s, d, web, 2)
      OBVIOUS
    <2>1. d.commands[1].cmd = "wwwdl_ack" /\ d.commands[2].cmd = "wwwdl_fail"
      BY 1 # 2
    <2> QED
      BY <1>1, <1>2, <2>1 DEF CommandInv, Answered, SameFiles
  <1>6. \A i \in 1..Len(d.commands) : CommandInv(s, d, web, i)
    <2>1. \A i \in 1..1 : i = 1
      OBVIOUS
    <2>2. \A i \in 1..2 : i = 1 \/ i = 2
      OBVIOUS
    <2> QED
      BY <1>4, <1>5, <2>1, <2>2
  <1>7. AnswerInv(s, d)
    BY <1>2 DEF AnswerInv
  <1>8. GamestateInv(s, d, w)
    <2>1. GamestateInv(s, c, w)
      BY DEF Protocol
    <2> QED
      BY <1>2, <2>1 DEF GamestateInv
  <1>9. ClientInv(s, d)
    <2>1. Fetching(s, d) \/ Failed(s, d)
      <3>1. 2 > 0
        OBVIOUS
      <3> QED
        BY <1>1, <3>1 DEF Fetching, Failed, SameFiles
    <2> QED
      BY <1>1, <1>2, <2>1 DEF Protocol, ClientInv, SameFiles
  <1>10. ListInv(s, d)
    BY DEF Protocol, ListInv, Unasked, SameFiles
  <1>11. ASSUME NEW i \in 1..Len(w) PROVE MessageInv(s, d, web, w[i])
    <2>1. RedirectInv(s, c, web, w[i]) /\ BlockInv(s, c, w[i])
      BY DEF Protocol, MessageInv
    <2> QED
      BY <1>2, <2>1 DEF MessageInv, RedirectInv, BlockInv, Unasked, SameFiles
  <1> QED
    BY <1>6, <1>7, <1>8, <1>9, <1>10, <1>11 DEF Protocol

\* The block a client waits for is what its number says, and of the window.
LEMMA BlockKnown ==
    ASSUME NEW s \in Servers, NEW c \in Clients, NEW w, NEW web, NEW m,
           Protocol(s, c, w, web), MessageInv(s, c, web, m), m.type = "block",
           m.data.file = c.downloadName, m.block = c.downloadBlock
    PROVE  LET n == c.downloadBlock
           IN  /\ Served(s, c) /\ s.download /\ s.downloadName = c.downloadName
               /\ c.downloadName \in Files
               /\ n \in Nat /\ n < Half /\ n < s.currentBlock
               /\ n = s.clientBlock + Len(c.commands)
               /\ m.data = Block(c.downloadName, n)
  <1> DEFINE n == c.downloadBlock
  <1>1. /\ c.downloadName \in Files /\ s.download /\ s.downloadName = c.downloadName
        /\ Numbered(s, c, m)
    BY DEF MessageInv, BlockInv
  <1>2. None \notin Files
    BY DownloadAssumption
  <1>3. Served(s, c)
    BY <1>1, <1>2, ServedIfOpen
  <1>4. n \in Nat
    BY DEF Clients
  <1>5. PICK x \in 0..Shorts - 1 : /\ m.block = Short(x) /\ x < s.currentBlock
                                   /\ x < n \/ m.data = Block(m.data.file, x)
    BY <1>1 DEF Numbered
  <1>6. x = n /\ x < Half
    BY <1>4, <1>5, ReadBack
  <1>7. ~(n < n)
    BY <1>4
  <1>8. n = s.clientBlock + Len(c.commands)
    BY <1>1, <1>3 DEF Served
  <1> QED
    BY <1>1, <1>3, <1>4, <1>5, <1>6, <1>7, <1>8

\* A block that is not the last is written and acknowledged.
LEMMA BlockTaken ==
    ASSUME NEW s \in Servers, NEW c \in Clients, NEW d \in Clients,
           NEW w \in Seq(Messages), NEW web, NEW m,
           Protocol(s, c, w, web), MessageInv(s, c, web, m), m.type = "block",
           m.data.file = c.downloadName, m.block = c.downloadBlock, ~IsEmpty(m.data),
           d.state = c.state, d.downloadName = c.downloadName,
           d.downloadList = c.downloadList, d.downloadRestart = c.downloadRestart,
           d.bWWWDl = c.bWWWDl, d.fetching = c.fetching,
           d.downloadBlock = c.downloadBlock + 1, d.open = TRUE,
           d.temp = (IF c.open THEN c.temp ELSE <<>>) \o <<m.data>>,
           Appended(c, d, [cmd |-> "nextdl", arg |-> c.downloadBlock])
    PROVE  Protocol(s, d, w, web)
  <1> DEFINE n == c.downloadBlock
             k == Len(c.commands)
             a == [cmd |-> "nextdl", arg |-> n]
  <1>1. /\ Served(s, c) /\ s.download /\ s.downloadName = c.downloadName
        /\ c.downloadName \in Files /\ n \in Nat /\ n < Half /\ n < s.currentBlock
        /\ n = s.clientBlock + k /\ m.data = Block(c.downloadName, n)
    BY BlockKnown
  <1>2. /\ Len(d.commands) = k + 1 /\ k \in Nat
        /\ d.commands[k + 1] = a /\ \A i \in 1..k : d.commands[i] = c.commands[i]
        /\ \A i \in 1..Len(d.commands) : i = k + 1 \/ i \in 1..k
    <2>1. k \in Nat /\ Len(d.commands) = k + 1
      BY DEF Appended
    <2> QED
      BY <2>1 DEF Appended
  <1>3. a.cmd = "nextdl" /\ a.arg = n
    OBVIOUS
  <1> HIDE DEF a
  <1>4. /\ \A i \in 1..k : c.commands[i].cmd = "nextdl"
        /\ n <= Size[c.downloadName] /\ ~s.bWWWing /\ ~c.bWWWDl /\ c.fetching = None
        /\ Collected(c)
    BY <1>1 DEF Served
  <1>5. n # Size[c.downloadName] /\ Size[c.downloadName] \in Nat /\ s.clientBlock \in Nat
    <2>1. Size[c.downloadName] \in Nat /\ s.clientBlock \in Nat
      BY <1>1, DownloadAssumption DEF Servers
    <2>2. m.data.file = c.downloadName /\ m.data.n = n
      BY <1>1 DEF Block
    <2> QED
      BY <2>1, <2>2 DEF IsEmpty
  <1>6. \A i \in 1..Len(d.commands) : d.commands[i].cmd = "nextdl"
    BY <1>2, <1>3, <1>4
  <1>7. ASSUME NEW i \in 1..Len(d.commands) PROVE CommandInv(s, d, web, i)
    <2>1. \A j \in 1..i - 1 : j \in 1..Len(d.commands)
      BY <1>2
    <2>2. CASE i \in 1..k
      <3>1. NextdlInv(s, c, i)
        BY <1>4, <2>2 DEF Protocol, CommandInv
      <3>2. NextdlInv(s, d, i)
        BY <1>2, <1>6, <2>1, <2>2, <3>1 DEF NextdlInv
      <3> QED
        BY <1>6, <3>2 DEF CommandInv
    <2>3. CASE i = k + 1
      <3>1. n = s.clientBlock + (k + 1) - 1
        BY <1>1, <1>2, <1>5
      <3>2. NextdlInv(s, d, k + 1)
        BY <1>1, <1>2, <1>3, <1>6, <2>1, <2>3, <3>1 DEF NextdlInv
      <3> QED
        BY <1>6, <2>3, <3>2 DEF CommandInv
    <2> QED
      BY <1>2, <2>2, <2>3
  <1>8. AnswerInv(s, d)
    BY <1>4 DEF AnswerInv
  <1>9. None \notin Files
    BY DownloadAssumption
  <1>10. GamestateInv(s, d, w)
    <2>1. GamestateInv(s, c, w)
      BY DEF Protocol
    <2> QED
      BY <1>1, <1>9, <2>1 DEF GamestateInv
  <1>11. ClientInv(s, d)
    <2>1. Collected(d)
      <3> DEFINE q == IF c.open THEN c.temp ELSE <<>>
      <3>1. c.open \in BOOLEAN /\ c.temp \in Seq(Blocks) /\ c.open = (n > 0)
        BY <1>4 DEF Clients, Collected
      <3>2. m.data \in Blocks
        BY <1>1 DEF Block, Blocks
      <3>3. /\ q \in Seq(Blocks) /\ Len(q) = n
            /\ \A i \in 1..n : q[i] = Block(c.downloadName, i - 1)
        <4>1. CASE c.open = TRUE
          <5>1. q = c.temp
            BY <4>1
          <5>2. /\ Len(c.temp) = n
                /\ \A i \in 1..n : c.temp[i] = Block(c.downloadName, i - 1)
            BY <1>4, <4>1 DEF Collected
          <5> QED
            BY <3>1, <5>1, <5>2
        <4>2. CASE c.open = FALSE
          <5>1. q = <<>>
            BY <4>2
          <5>2. n = 0
            <6>1. (n > 0) = FALSE
              BY <3>1, <4>2
            <6> QED
              BY <1>1, <6>1
          <5>3. q \in Seq(Blocks) /\ Len(q) = 0
            <6>1. <<>> \in Seq(Blocks) /\ Len(<<>>) = 0
              OBVIOUS
            <6> HIDE DEF q
            <6> QED
              BY <5>1, <6>1
          <5>4. 1..n = {}
            BY <5>2
          <5> HIDE DEF q, n
          <5> QED
            BY <5>2, <5>3, <5>4
        <4> QED
          BY <3>1, <4>1, <4>2
      <3>4. \A i \in 1..n : q[i] = Block(c.downloadName, i - 1)
        BY <3>3
      <3> HIDE DEF q
      <3>5. /\ Len(q \o <<m.data>>) = n + 1 /\ (q \o <<m.data>>)[n + 1] = m.data
            /\ \A i \in 1..n : (q \o <<m.data>>)[i] = q[i]
        BY <1>1, <3>2, <3>3
      <3>6. d.temp = q \o <<m.data>>
        BY DEF q
      <3>7. \A i \in 1..n + 1 : i = n + 1 \/ i \in 1..n
        BY <1>1
      <3>8. m.data = Block(c.downloadName, (n + 1) - 1)
        BY <1>1
      <3>9. \A i \in 1..n + 1 : d.temp[i] = Block(c.downloadName, i - 1)
        <4> SUFFICES ASSUME NEW i \in 1..n + 1
                     PROVE  d.temp[i] = Block(c.downloadName, i - 1)
          OBVIOUS
        <4>1. CASE i = n + 1
          <5>1. d.temp[n + 1] = m.data
            BY <3>5, <3>6, Zenon
          <5> QED
            BY <3>8, <4>1, <5>1, Zenon
        <4>2. CASE i \in 1..n
          <5>1. d.temp[i] = q[i]
            BY <3>5, <3>6, <4>2, Zenon
          <5> QED
            BY <3>4, <4>2, <5>1, Zenon
        <4> QED
          BY <3>7, <4>1, <4>2, Zenon
      <3>10. (d.downloadBlock > 0) = TRUE
        BY <1>1
      <3> QED
        BY <3>5, <3>6, <3>9, <3>10 DEF Collected
    <2>2. d.downloadBlock = s.clientBlock + Len(d.commands)
      BY <1>1, <1>2, <1>5
    <2>3. d.downloadBlock <= Size[c.downloadName]
      BY <1>1, <1>4, <1>5
    <2>4. Served(s, d)
      BY <1>1, <1>4, <1>6, <2>1, <2>2, <2>3 DEF Served
    <2> QED
      BY <1>1, <1>9, <2>4 DEF Protocol, ClientInv
  <1>12. ListInv(s, d)
    BY DEF Protocol, ListInv, Unasked
  <1>13. ASSUME NEW i \in 1..Len(w) PROVE MessageInv(s, d, web, w[i])
    <2>1. RedirectInv(s, c, web, w[i]) /\ BlockInv(s, c, w[i])
      BY DEF Protocol, MessageInv
    <2>2. RedirectInv(s, d, web, w[i])
      <3>1. ~Redirecting(s, web)
        BY <1>1 DEF Redirecting
      <3> QED
        BY <2>1, <3>1 DEF RedirectInv, Unasked
    <2>3. Numbered(s, c, w[i]) => Numbered(s, d, w[i])
      <3>1. \A x \in 0..Shorts - 1 : x < n => x < n + 1
        BY <1>1
      <3> QED
        BY <3>1 DEF Numbered
    <2>4. BlockInv(s, d, w[i])
      BY <2>1, <2>3 DEF BlockInv, Unasked
    <2> QED
      BY <2>2, <2>4 DEF MessageInv
  <1> QED
    BY <1>7, <1>8, <1>10, <1>11, <1>12, <1>13 DEF Protocol

\* The file is done with: all of it is there, or it is given up.
LEMMA FileLeft ==
    ASSUME NEW s \in Servers, NEW c \in Clients, NEW e \in Clients,
           NEW w \in Seq(Messages), NEW web, NEW m,
           Protocol(s, c, w, web), Served(s, c), s.downloadName # None,
           e.state = "connected", ~e.open, e.bWWWDl = c.bWWWDl, e.fetching = c.fetching,
           e.downloadList = c.downloadList, e.downloadRestart \/ e.downloadName = None,
           Appended(c, e, m),
           \/ m.cmd = "stopdl"
           \/ /\ m.cmd = "nextdl" /\ s.download /\ m.arg = c.downloadBlock
              /\ m.arg = Size[s.downloadName] /\ m.arg < Half /\ m.arg < s.currentBlock
    PROVE  Ready(s, e, w, web)
  <1> DEFINE k == Len(c.commands)
  <1>1. /\ Len(e.commands) = k + 1 /\ k \in Nat
        /\ e.commands[k + 1] = m /\ \A i \in 1..k : e.commands[i] = c.commands[i]
        /\ \A i \in 1..Len(e.commands) : i = k + 1 \/ i \in 1..k
    <2>1. k \in Nat /\ Len(e.commands) = k + 1
      BY DEF Appended
    <2> QED
      BY <2>1 DEF Appended
  <1>2. /\ \A i \in 1..k : c.commands[i].cmd = "nextdl"
        /\ ~s.bWWWing /\ ~c.bWWWDl /\ c.fetching = None
    BY DEF Served
  <1>3. ASSUME NEW i \in 1..Len(e.commands)
        PROVE  /\ e.commands[i].cmd \in {"nextdl", "stopdl", "wwwdl_ack", "wwwdl_done"}
               /\ CommandInv(s, e, web, i)
    <2>1. \A j \in 1..i - 1 : j \in 1..k
      BY <1>1
    <2>2. CASE i \in 1..k
      <3>1. NextdlInv(s, c, i) /\ e.commands[i].cmd = "nextdl"
        BY <1>1, <1>2, <2>2 DEF Protocol, CommandInv
      <3>2. NextdlInv(s, e, i)
        BY <1>1, <1>2, <2>1, <2>2, <3>1 DEF NextdlInv
      <3> QED
        BY <3>1, <3>2 DEF CommandInv
    <2>3. CASE i = k + 1 /\ m.cmd = "nextdl"
      <3>1. c.downloadBlock = s.clientBlock + (k + 1) - 1
        <4>1. c.downloadBlock = s.clientBlock + k /\ s.clientBlock \in Nat
          BY <2>3 DEF Served, Servers
        <4> QED
          BY <1>1, <4>1
      <3>2. NextdlInv(s, e, k + 1)
        BY <1>1, <1>2, <2>1, <2>3, <3>1 DEF NextdlInv
      <3> QED
        BY <1>1, <2>3, <3>2 DEF CommandInv
    <2>4. CASE i = k + 1 /\ m.cmd = "stopdl"
      BY <1>1, <2>4 DEF CommandInv
    <2> QED
      BY <1>1, <2>2, <2>3, <2>4
  <1>4. AfterClose(s, e, Len(e.commands) + 1)
    <2>1. (k + 1) + 1 # 1 /\ ((k + 1) + 1) - 1 = k + 1
      BY <1>1
    <2>2. Closes(s, m)
      BY DEF Closes
    <2> QED
      BY <1>1, <2>1, <2>2 DEF AfterClose
  <1>5. AnswerInv(s, e)
    BY <1>2 DEF AnswerInv
  <1>6. ~Coming(s, w)
    BY DEF Protocol, GamestateInv
  <1>7. /\ \A i, j \in 1..Len(e.downloadList) : e.downloadList[i] = e.downloadList[j] => i = j
        /\ Unasked(e, s.downloadName)
    BY DEF Protocol, ListInv, Unasked
  <1>8. \A i \in 1..Len(w) :
           /\ w[i].type = "www" => w[i].file \in Files /\ Unasked(e, w[i].file)
           /\ w[i].type = "block" => w[i].data.file \in Files /\ Unasked(e, w[i].data.file)
    BY DEF Protocol, MessageInv, RedirectInv, BlockInv, Unasked
  <1> QED
    BY <1>2, <1>3, <1>4, <1>5, <1>6, <1>7, <1>8 DEF Ready, Protocol

\* A client that asks the web server has been told to by the server.
LEMMA FetchingKnown ==
    ASSUME NEW s \in Servers, NEW c \in Clients, NEW w, NEW web, Protocol(s, c, w, web),
           c.fetching # None
    PROVE  /\ Fetching(s, c) /\ c.downloadName # None /\ s.downloadName = c.downloadName
           /\ c.fetching = c.downloadName /\ c.downloadRestart /\ c.state = "connected"
           /\ c.bWWWDl /\ ~c.open /\ ~s.download
           /\ \/ Len(c.commands) = 0 /\ s.bWWWing
              \/ Len(c.commands) = 1 /\ c.commands[1].cmd = "wwwdl_ack" /\ Redirecting(s, web)
  <1>1. ClientInv(s, c) /\ WindowInv(s) /\ \A i \in 1..Len(c.commands) : CommandInv(s, c, web, i)
    BY DEF Protocol
  <1>2. c.downloadName # None
    BY <1>1 DEF ClientInv
  <1>3. ~Asked(c)
    <2> SUFFICES ASSUME Asked(c) PROVE FALSE
      OBVIOUS
    <2>1. Len(c.commands) \in 1..Len(c.commands)
      BY DEF Asked, Clients
    <2> QED
      BY <1>1, <2>1 DEF Asked, CommandInv, RequestInv
  <1>4. Fetching(s, c) /\ c.downloadRestart
    BY <1>1, <1>2, <1>3 DEF ClientInv, Served, Failed, Skipped
  <1>5. c.state = "connected"
    BY <1>1, <1>2 DEF ClientInv, Clients
  <1>6. \/ Len(c.commands) = 0 /\ s.bWWWing
        \/ Len(c.commands) = 1 /\ c.commands[1].cmd = "wwwdl_ack" /\ Redirecting(s, web)
    <2>1. CASE Len(c.commands) = 0 /\ s.bWWWing
      BY <2>1
    <2>2. CASE Len(c.commands) = 1 /\ c.commands[1].cmd = "wwwdl_ack"
      <3>1. CommandInv(s, c, web, 1)
        BY <1>1, <2>2
      <3> QED
        BY <2>2, <3>1 DEF CommandInv, AckInv
    <2> QED
      BY <1>4, <2>1, <2>2 DEF Fetching
  <1>7. ~s.download
    BY <1>1, <1>6 DEF WindowInv, Redirecting
  <1> QED
    BY <1>2, <1>4, <1>5, <1>6, <1>7 DEF Fetching

\* The web server has not got the file.
LEMMA WebMissing ==
    ASSUME NEW s \in Servers, NEW c \in Clients, NEW d \in Clients,
           NEW w \in Seq(Messages), NEW web, Protocol(s, c, w, web), c.fetching # None,
           SameFiles(c, d), d.bWWWDl = c.bWWWDl, d.fetching = None,
           Appended(c, d, [cmd |-> "wwwdl_fail", arg |-> None])
    PROVE  Protocol(s, d, w, web)
  <1> DEFINE m == [cmd |-> "wwwdl_fail", arg |-> None]
  <1>1. /\ c.downloadName # None /\ s.downloadName = c.downloadName
        /\ c.downloadRestart /\ c.state = "connected" /\ c.bWWWDl /\ ~c.open /\ ~s.download
        /\ \/ Len(c.commands) = 0 /\ s.bWWWing
           \/ Len(c.commands) = 1 /\ c.commands[1].cmd = "wwwdl_ack" /\ Redirecting(s, web)
    BY FetchingKnown
  <1>2. m.cmd = "wwwdl_fail"
    OBVIOUS
  <1>3. /\ Len(d.commands) = Len(c.commands) + 1 /\ d.commands[Len(d.commands)] = m
        /\ \A i \in 1..Len(c.commands) : d.commands[i] = c.commands[i]
    BY DEF Appended
  <1> HIDE DEF m
  <1>4. AnswerInv(s, d) /\ Failed(s, d) /\ \A i \in 1..Len(d.commands) : CommandInv(s, d, web, i)
    <2>1. CASE Len(c.commands) = 0 /\ s.bWWWing
      <3>1. Len(d.commands) = 1 /\ d.commands[1].cmd = "wwwdl_fail" /\ 1 > 0 /\ 0 + 1 = 1
        BY <1>2, <1>3, <2>1
      <3>2. CommandInv(s, d, web, 1)
        BY <1>1, <2>1, <3>1 DEF CommandInv, Answered, SameFiles
      <3>3. \A i \in 1..1 : i = 1
        OBVIOUS
      <3>4. AnswerInv(s, d)
        BY <3>1 DEF AnswerInv
      <3>5. Failed(s, d)
        BY <1>1, <3>1 DEF Failed, SameFiles
      <3> QED
        BY <3>1, <3>2, <3>3, <3>4, <3>5
    <2>2. CASE Len(c.commands) = 1 /\ c.commands[1].cmd = "wwwdl_ack" /\ Redirecting(s, web)
      <3>1. /\ Len(d.commands) = 2 /\ d.commands[2].cmd = "wwwdl_fail" /\ 2 > 1 /\ 2 > 0
            /\ d.commands[1].cmd = "wwwdl_ack" /\ 2 # 1
        <4>1. 1 + 1 = 2 /\ 1 \in 1..1 /\ 2 > 1 /\ 2 > 0 /\ 2 # 1
          OBVIOUS
        <4> QED
          BY <1>2, <1>3, <2>2, <4>1
      <3>2. CommandInv(s, d, web, 1)
        BY <2>2, <3>1 DEF CommandInv, AckInv
      <3>3. CommandInv(s, d, web, 2)
        BY <1>1, <3>1 DEF CommandInv, Answered, SameFiles
      <3>4. \A i \in 1..2 : i = 1 \/ i = 2
        OBVIOUS
      <3>5. AnswerInv(s, d)
        BY <2>2 DEF AnswerInv, Redirecting
      <3>6. Failed(s, d)
        BY <1>1, <3>1 DEF Failed, SameFiles
      <3> QED
        BY <3>1, <3>2, <3>3, <3>4, <3>5, <3>6
    <2> QED
      BY <1>1, <2>1, <2>2
  <1>5. GamestateInv(s, d, w)
    <2>1. GamestateInv(s, c, w)
      BY DEF Protocol
    <2> QED
      BY <1>1, <2>1 DEF GamestateInv
  <1>6. ClientInv(s, d) /\ ListInv(s, d)
    BY <1>1, <1>4 DEF Protocol, ClientInv, ListInv, Unasked, SameFiles
  <1>7. ASSUME NEW i \in 1..Len(w) PROVE MessageInv(s, d, web, w[i])
    <2>1. RedirectInv(s, c, web, w[i]) /\ BlockInv(s, c, w[i])
      BY DEF Protocol, MessageInv
    <2> QED
      BY <1>1, <2>1 DEF MessageInv, RedirectInv, BlockInv, Unasked, SameFiles
  <1> QED
    BY <1>4, <1>5, <1>6, <1>7 DEF Protocol

\* What the web server gave was saved.
LEMMA WebDone ==
    ASSUME NEW s \in Servers, NEW c \in Clients, NEW e \in Clients,
           NEW w \in Seq(Messages), NEW web, Protocol(s, c, w, web), c.fetching # None,
           e.state = c.state, e.open = c.open, ~e.bWWWDl, e.fetching = None,
           e.downloadName = None, e.downloadList = c.downloadList,
           Appended(c, e, [cmd |-> "wwwdl_done", arg |-> None])
    PROVE  Ready(s, e, w, web)
  <1> DEFINE m == [cmd |-> "wwwdl_done", arg |-> None]
             k == Len(e.commands)
  <1>1. /\ c.downloadName # None /\ s.downloadName = c.downloadName
        /\ c.state = "connected" /\ ~c.open /\ ~s.download
        /\ \/ Len(c.commands) = 0 /\ s.bWWWing
           \/ Len(c.commands) = 1 /\ c.commands[1].cmd = "wwwdl_ack" /\ Redirecting(s, web)
    BY FetchingKnown
  <1>2. m.cmd = "wwwdl_done"
    OBVIOUS
  <1>3. /\ k = Len(c.commands) + 1 /\ e.commands[k] = m /\ k \in Nat
        /\ \A i \in 1..Len(c.commands) : e.commands[i] = c.commands[i]
    BY DEF Appended
  <1> HIDE DEF m
  <1>4. /\ AnswerInv(s, e)
        /\ \A i \in 1..Len(e.commands) :
              /\ e.commands[i].cmd \in {"nextdl", "stopdl", "wwwdl_ack", "wwwdl_done"}
              /\ CommandInv(s, e, web, i)
    <2>1. CASE Len(c.commands) = 0 /\ s.bWWWing
      <3>1. Len(e.commands) = 1 /\ e.commands[1].cmd = "wwwdl_done" /\ 1 > 0 /\ 0 + 1 = 1
        BY <1>2, <1>3, <2>1
      <3>2. CommandInv(s, e, web, 1)
        BY <2>1, <3>1 DEF CommandInv, Answered
      <3>3. \A i \in 1..1 : i = 1
        OBVIOUS
      <3>4. AnswerInv(s, e)
        BY <3>1 DEF AnswerInv
      <3> QED
        BY <3>1, <3>2, <3>3, <3>4
    <2>2. CASE Len(c.commands) = 1 /\ c.commands[1].cmd = "wwwdl_ack" /\ Redirecting(s, web)
      <3>1. /\ Len(e.commands) = 2 /\ e.commands[2].cmd = "wwwdl_done" /\ 2 > 1 /\ 2 > 0
            /\ e.commands[1].cmd = "wwwdl_ack" /\ 2 # 1
        <4>1. 1 + 1 = 2 /\ 1 \in 1..1 /\ 2 > 1 /\ 2 > 0 /\ 2 # 1
          OBVIOUS
        <4> QED
          BY <1>2, <1>3, <2>2, <4>1
      <3>2. CommandInv(s, e, web, 1)
        BY <2>2, <3>1 DEF CommandInv, AckInv
      <3>3. CommandInv(s, e, web, 2)
        BY <3>1 DEF CommandInv, Answered
      <3>4. \A i \in 1..2 : i = 1 \/ i = 2
        OBVIOUS
      <3>5. AnswerInv(s, e)
        BY <2>2 DEF AnswerInv, Redirecting
      <3> QED
        BY <3>1, <3>2, <3>3, <3>4, <3>5
    <2> QED
      BY <1>1, <2>1, <2>2
  <1>5. AfterClose(s, e, k + 1)
    <2>1. k + 1 # 1 /\ (k + 1) - 1 = k
      BY <1>1, <1>3
    <2>2. Closes(s, m)
      BY <1>2 DEF Closes
    <2> QED
      BY <1>3, <2>1, <2>2 DEF AfterClose
  <1>6. ~Coming(s, w)
    BY <1>1 DEF Protocol, GamestateInv
  <1>7. /\ \A i, j \in 1..Len(e.downloadList) : e.downloadList[i] = e.downloadList[j] => i = j
        /\ Unasked(e, s.downloadName)
    BY DEF Protocol, ListInv, Unasked
  <1>8. \A i \in 1..Len(w) :
           /\ w[i].type = "www" => w[i].file \in Files /\ Unasked(e, w[i].file)
           /\ w[i].type = "block" => w[i].data.file \in Files /\ Unasked(e, w[i].data.file)
    BY DEF Protocol, MessageInv, RedirectInv, BlockInv, Unasked
  <1> QED
    BY <1>1, <1>4, <1>5, <1>6, <1>7, <1>8 DEF Ready, Protocol

\* A gamestate comes in: the files that are missing are looked for.
LEMMA GamestateTaken ==
    ASSUME NEW s \in Servers, NEW c \in Clients, NEW e \in Clients,
           NEW w \in Seq(Messages), NEW web,
           Protocol(s, c, w, web), Coming(s, w), ~s.gamestate,
           e.state = "connected", e.open = c.open, ~e.bWWWDl, e.fetching = c.fetching,
           e.downloadName = None, e.commands = c.commands, Distinct(e.downloadList)
    PROVE  Ready(s, e, <<>>, web)
  <1>1. /\ s.downloadName = None /\ \A i \in 1..Len(c.commands) : c.commands[i].cmd = "stopdl"
    BY DEF Protocol, GamestateInv
  <1>2. /\ Len(c.commands) \in Nat
        /\ Len(c.commands) > 0 => Len(c.commands) \in 1..Len(c.commands)
    BY DEF Clients
  <1>3. ~c.open /\ c.fetching = None
    <2>1. CASE c.downloadName = None
      BY <2>1 DEF Protocol, ClientInv
    <2>2. CASE c.downloadName # None
      <3>1. Asked(c) \/ Served(s, c) \/ Fetching(s, c) \/ Failed(s, c) \/ Skipped(s, c)
        BY <2>2 DEF Protocol, ClientInv
      <3>2. ~Asked(c) /\ ~Served(s, c) /\ ~Fetching(s, c)
        BY <1>1, <1>2, <2>2 DEF Asked, Served, Fetching
      <3> QED
        BY <3>1, <3>2 DEF Failed, Skipped
    <2> QED
      BY <2>1, <2>2
  <1>4. AnswerInv(s, e)
    BY <1>1 DEF Protocol, WindowInv, AnswerInv
  <1>5. AfterClose(s, e, Len(e.commands) + 1)
    <2>1. CASE Len(c.commands) = 0
      BY <1>1, <2>1 DEF AfterClose
    <2>2. CASE Len(c.commands) > 0
      <3>1. Len(c.commands) + 1 # 1 /\ (Len(c.commands) + 1) - 1 = Len(c.commands)
        BY <1>2, <2>2
      <3>2. c.commands[Len(c.commands)].cmd = "stopdl"
        BY <1>1, <1>2, <2>2
      <3> QED
        BY <3>1, <3>2 DEF AfterClose, Closes
    <2> QED
      BY <1>2, <2>1, <2>2
  <1>6. Unasked(e, None)
    <2>1. None \notin Files /\ \A i \in 1..Len(e.downloadList) : e.downloadList[i] \in Files
      BY DownloadAssumption DEF Clients
    <2> QED
      BY <2>1 DEF Unasked
  <1>7. ~Coming(s, <<>>)
    BY DEF Coming
  <1>8. \A i \in 1..Len(e.commands) :
           /\ e.commands[i].cmd \in {"nextdl", "stopdl", "wwwdl_ack", "wwwdl_done"}
           /\ CommandInv(s, e, web, i)
    BY <1>1 DEF CommandInv
  <1>9. 1..Len(<<>>) = {}
    OBVIOUS
  <1> QED
    BY <1>1, <1>3, <1>4, <1>5, <1>6, <1>7, <1>8, <1>9 DEF Ready, Protocol, Distinct

\* The next file is asked for, or none; the disk stays as it is.
LEMMA NextKeepsDisk ==
    ASSUME NEW c \in Clients
    PROVE  LET d == Com_NextDownload(c)
           IN  d \in Clients /\ d.mixed = c.mixed /\ (DiskInv(c) => DiskInv(d))
  <1> DEFINE d == Com_NextDownload(c)
  <1>1. d \in Clients /\ (Asks(c, d) \/ Ends(c, d) \/ Loads(c, d))
    BY NextDownload
  <1> HIDE DEF d
  <1>2. SameRest(c, d)
    BY <1>1 DEF Asks, Ends, Loads
  <1>3. d \in Clients /\ d.mixed = c.mixed /\ (DiskInv(c) => DiskInv(d))
    BY <1>1, <1>2 DEF SameRest, DiskInv
  <1> QED
    BY <1>3 DEF d

LEMMA WholeType ==
    ASSUME NEW f \in Files
    PROVE  /\ Whole(f) \in Seq(Blocks) /\ Len(Whole(f)) = Size[f] /\ Whole(f) # <<>>
           /\ \A k \in 1..Size[f] : Whole(f)[k] = Block(f, k - 1)
  <1> DEFINE n == Size[f]
  <1>1. n \in Nat /\ n # 0
    BY PaksTyped
  <1>2. Whole(f) = [k \in 1..n |-> Block(f, k - 1)]
    BY DEF Whole
  <1>3. \A k \in 1..n : Block(f, k - 1) \in Blocks
    BY <1>1 DEF Block, Blocks
  <1> HIDE DEF n
  <1>4. Whole(f) \in Seq(Blocks) /\ Len(Whole(f)) = n
    BY <1>1, <1>2, <1>3
  <1>5. \A k \in 1..n : Whole(f)[k] = Block(f, k - 1)
    BY <1>2
  <1> QED
    BY <1>1, <1>4, <1>5 DEF n

\* A sequence of the blocks of a file, as many as it has, is the file.
LEMMA WholeKnown ==
    ASSUME NEW f \in Files, NEW q \in Seq(Blocks), Len(q) = Size[f],
           \A k \in 1..Size[f] : q[k] = Block(f, k - 1)
    PROVE  q = Whole(f)
  <1>1. /\ Whole(f) \in Seq(Blocks) /\ Len(Whole(f)) = Size[f]
        /\ \A k \in 1..Size[f] : Whole(f)[k] = Block(f, k - 1)
    BY WholeType
  <1> HIDE DEF Whole
  <1>2. q = [k \in 1..Size[f] |-> q[k]] /\ Whole(f) = [k \in 1..Size[f] |-> Whole(f)[k]]
    BY <1>1
  <1>3. \A k \in 1..Size[f] : q[k] = Whole(f)[k]
    BY <1>1
  <1> QED
    BY <1>2, <1>3

LEMMA Saved ==
    ASSUME NEW c \in Clients, NEW f \in Named, NEW q \in Seq(Blocks)
    PROVE  LET d == Save(c, f, q)
           IN  /\ d \in Clients /\ d.downloadName = None
               /\ d.saved = c.saved \cup {[name |-> f, content |-> q]}
               /\ d.state = c.state /\ d.downloadList = c.downloadList
               /\ d.open = c.open /\ d.bWWWDl = c.bWWWDl /\ d.fetching = c.fetching
               /\ d.commands = c.commands /\ d.redirected = c.redirected
               /\ d.bad = c.bad /\ d.mixed = c.mixed
  <1> DEFINE r == [name |-> f, content |-> q]
             u == c.saved \cup {r}
             d == [c EXCEPT !.saved = u, !.downloadName = None]
  <1>1. Save(c, f, q) = d
    BY DEF Save
  <1>2. r \in [name : Named, content : Seq(Blocks)]
    OBVIOUS
  <1> HIDE DEF r
  <1>3. u \in SUBSET [name : Named, content : Seq(Blocks)]
    BY <1>2 DEF Clients
  <1>4. u = c.saved \cup {[name |-> f, content |-> q]}
    BY DEF r
  <1>n. None \in Named
    BY DEF Named
  <1> HIDE DEF u
  <1>5. /\ d \in Clients /\ d.downloadName = None /\ d.saved = u
        /\ d.state = c.state /\ d.downloadList = c.downloadList
        /\ d.open = c.open /\ d.bWWWDl = c.bWWWDl /\ d.fetching = c.fetching
        /\ d.commands = c.commands /\ d.redirected = c.redirected
        /\ d.bad = c.bad /\ d.mixed = c.mixed
    BY <1>3, <1>n DEF Clients
  <1> QED
    BY <1>1, <1>4, <1>5

\* A file that is whole is saved.
LEMMA SavedDisk ==
    ASSUME NEW c, NEW d, DiskInv(c), NEW f \in Files, NEW q,
           q # <<>> => q = Whole(f),
           d.saved = c.saved \cup {[name |-> f, content |-> q]},
           d.redirected \subseteq Files, d.bad = c.bad
    PROVE  DiskInv(d)
  <1> DEFINE r == [name |-> f, content |-> q]
  <1>1. r.name = f /\ r.content = q
    OBVIOUS
  <1>2. f # None
    BY PaksTyped
  <1>3. d.saved = c.saved \cup {r}
    OBVIOUS
  <1> HIDE DEF r
  <1>4. ASSUME NEW x \in d.saved
        PROVE  x.name # None /\ (x.content # <<>> => x.content = Whole(x.name))
    <2>1. CASE x = r
      BY <1>1, <1>2, <2>1
    <2>2. CASE x \in c.saved
      BY <2>2 DEF DiskInv
    <2> QED
      BY <1>3, <2>1, <2>2
  <1> QED
    BY <1>4 DEF DiskInv

\* The client when it has written a block, and acknowledged it.
Written(c, m) ==
    CL_AddReliableCommand(
        [c EXCEPT !.downloadBlock = @ + 1, !.open = ~IsEmpty(m.data),
                  !.mixed = @ \/ m.data.file # c.downloadName,
                  !.temp = (IF c.open THEN @ ELSE <<>>)
                           \o (IF IsEmpty(m.data) THEN <<>> ELSE <<m.data>>)],
        "nextdl", c.downloadBlock)

LEMMA BlockWritten ==
    ASSUME NEW c \in Clients, NEW m, m.data \in Blocks
    PROVE  LET d == Written(c, m)
           IN  /\ d \in Clients
               /\ d.state = c.state /\ d.downloadName = c.downloadName
               /\ d.downloadList = c.downloadList /\ d.downloadRestart = c.downloadRestart
               /\ d.bWWWDl = c.bWWWDl /\ d.fetching = c.fetching
               /\ d.downloadBlock = c.downloadBlock + 1
               /\ d.open = ~IsEmpty(m.data)
               /\ d.temp = (IF c.open THEN c.temp ELSE <<>>)
                           \o (IF IsEmpty(m.data) THEN <<>> ELSE <<m.data>>)
               /\ d.redirected = c.redirected /\ d.bad = c.bad /\ d.saved = c.saved
               /\ d.mixed = (c.mixed \/ m.data.file # c.downloadName)
               /\ Appended(c, d, [cmd |-> "nextdl", arg |-> c.downloadBlock])
  <1> DEFINE b == c.downloadBlock + 1
             o == ~IsEmpty(m.data)
             x == c.mixed \/ m.data.file # c.downloadName
             q == (IF c.open THEN c.temp ELSE <<>>)
                  \o (IF IsEmpty(m.data) THEN <<>> ELSE <<m.data>>)
             e == [c EXCEPT !.downloadBlock = b, !.open = o, !.mixed = x, !.temp = q]
             d == CL_AddReliableCommand(e, "nextdl", c.downloadBlock)
  <1>1. /\ b \in Nat /\ o \in BOOLEAN /\ x \in BOOLEAN
        /\ c.temp \in Seq(Blocks) /\ c.downloadBlock \in Nat /\ c.mixed \in BOOLEAN
    BY DEF Clients
  <1>2. q \in Seq(Blocks)
    BY <1>1
  <1> HIDE DEF b, o, x, q
  <1>3. /\ e \in Clients /\ e.state = c.state /\ e.downloadName = c.downloadName
        /\ e.downloadList = c.downloadList /\ e.downloadRestart = c.downloadRestart
        /\ e.bWWWDl = c.bWWWDl /\ e.fetching = c.fetching /\ e.downloadBlock = b
        /\ e.open = o /\ e.temp = q /\ e.redirected = c.redirected /\ e.bad = c.bad
        /\ e.saved = c.saved /\ e.mixed = x /\ e.commands = c.commands
    BY <1>1, <1>2 DEF Clients
  <1> HIDE DEF e
  <1>4. [cmd |-> "nextdl", arg |-> c.downloadBlock] \in Commands
    BY <1>1, CommandType
  <1>5. /\ d \in Clients /\ SameClient(e, d) /\ SameDisk(e, d)
        /\ Appended(e, d, [cmd |-> "nextdl", arg |-> c.downloadBlock])
    BY <1>3, <1>4, CommandAdded
  <1> HIDE DEF d
  <1>6. Appended(c, d, [cmd |-> "nextdl", arg |-> c.downloadBlock])
    BY <1>3, <1>5 DEF Appended
  <1>7. /\ d \in Clients
        /\ d.state = c.state /\ d.downloadName = c.downloadName
        /\ d.downloadList = c.downloadList /\ d.downloadRestart = c.downloadRestart
        /\ d.bWWWDl = c.bWWWDl /\ d.fetching = c.fetching
        /\ d.downloadBlock = b /\ d.open = o /\ d.temp = q
        /\ d.redirected = c.redirected /\ d.bad = c.bad /\ d.saved = c.saved
        /\ d.mixed = x
        /\ Appended(c, d, [cmd |-> "nextdl", arg |-> c.downloadBlock])
    BY <1>3, <1>5, <1>6 DEF SameClient, SameDisk
  <1> QED
    BY <1>7 DEF Written, d, e, b, o, x, q

\* What a step of the client's is to keep.
Kept(s, c, w, web) == ~c.mixed => Protocol(s, c, w, web) /\ DiskInv(c)

\* The block waited for is written, and the file it completes is saved.
LEMMA BlockParsed ==
    ASSUME NEW s \in Servers, NEW c \in Clients, c.downloadName # None,
           c.state = "connected", NEW w \in Seq(Messages), NEW web \in Mirrors,
           NEW m, m.type = "block", m.data \in Blocks,
           Kept(s, c, w, web), ~c.mixed => MessageInv(s, c, web, m)
    PROVE  LET d == ParseBlock(c, m) IN d \in Clients /\ Kept(s, d, w, web)
  <1> DEFINE a == [cmd |-> "nextdl", arg |-> c.downloadBlock]
             v == Written(c, m)
             e == Save(v, c.downloadName, v.temp)
             d == ParseBlock(c, m)
  <1>n. a.cmd = "nextdl" /\ a.arg = c.downloadBlock
    OBVIOUS
  <1>1. d = IF m.block # c.downloadBlock THEN c
            ELSE IF IsEmpty(m.data) THEN Com_NextDownload(e) ELSE v
    BY DEF ParseBlock, Written
  <1>2. /\ v \in Clients
        /\ v.state = c.state /\ v.downloadName = c.downloadName
        /\ v.downloadList = c.downloadList /\ v.downloadRestart = c.downloadRestart
        /\ v.bWWWDl = c.bWWWDl /\ v.fetching = c.fetching
        /\ v.downloadBlock = c.downloadBlock + 1
        /\ v.open = ~IsEmpty(m.data)
        /\ v.temp = (IF c.open THEN c.temp ELSE <<>>)
                    \o (IF IsEmpty(m.data) THEN <<>> ELSE <<m.data>>)
        /\ v.redirected = c.redirected /\ v.bad = c.bad /\ v.saved = c.saved
        /\ v.mixed = (c.mixed \/ m.data.file # c.downloadName)
        /\ Appended(c, v, a)
    BY BlockWritten
  <1> HIDE DEF v, a, d
  <1>3. v.temp \in Seq(Blocks) /\ c.downloadName \in Named /\ c.temp \in Seq(Blocks)
    BY <1>2 DEF Clients
  <1>4. /\ e \in Clients /\ e.downloadName = None
        /\ e.saved = v.saved \cup {[name |-> c.downloadName, content |-> v.temp]}
        /\ e.state = v.state /\ e.downloadList = v.downloadList
        /\ e.open = v.open /\ e.bWWWDl = v.bWWWDl /\ e.fetching = v.fetching
        /\ e.commands = v.commands /\ e.redirected = v.redirected
        /\ e.bad = v.bad /\ e.mixed = v.mixed
    BY <1>2, <1>3, Saved
  <1> HIDE DEF e
  <1> SUFFICES d \in Clients /\ Kept(s, d, w, web)
    BY DEF d
  <1>5. CASE m.block # c.downloadBlock
    <2>1. d = c
      BY <1>1, <1>5
    <2> QED
      BY <2>1
  <1>6. CASE m.block = c.downloadBlock /\ ~IsEmpty(m.data)
    <2>1. d = v
      BY <1>1, <1>6
    <2>2. ASSUME ~v.mixed PROVE Protocol(s, v, w, web) /\ DiskInv(v)
      <3>1. ~c.mixed /\ m.data.file = c.downloadName
        BY <1>2, <2>2
      <3>2. Protocol(s, c, w, web) /\ DiskInv(c) /\ MessageInv(s, c, web, m)
        BY <3>1 DEF Kept
      <3>3. DiskInv(v)
        BY <1>2, <3>2 DEF DiskInv
      <3>4. v.open = TRUE /\ v.temp = (IF c.open THEN c.temp ELSE <<>>) \o <<m.data>>
        BY <1>2, <1>6
      <3>5. Protocol(s, v, w, web)
        BY <1>2, <1>6, <3>1, <3>2, <3>4, BlockTaken DEF a
      <3> QED
        BY <3>3, <3>5
    <2> QED
      BY <1>2, <2>1, <2>2 DEF Kept
  <1>7. CASE m.block = c.downloadBlock /\ IsEmpty(m.data)
    <2>1. d = Com_NextDownload(e)
      BY <1>1, <1>7
    <2>2. d \in Clients /\ d.mixed = e.mixed /\ (DiskInv(e) => DiskInv(d))
      BY <1>4, <2>1, NextKeepsDisk
    <2>3. ASSUME ~d.mixed PROVE Protocol(s, d, w, web) /\ DiskInv(d)
      <3>1. ~c.mixed /\ m.data.file = c.downloadName
        BY <1>2, <1>4, <2>2, <2>3
      <3>2. Protocol(s, c, w, web) /\ DiskInv(c) /\ MessageInv(s, c, web, m)
        BY <3>1 DEF Kept
      <3>3. /\ Served(s, c) /\ s.download /\ s.downloadName = c.downloadName
            /\ c.downloadName \in Files
            /\ c.downloadBlock \in Nat /\ c.downloadBlock < Half
            /\ c.downloadBlock < s.currentBlock
            /\ m.data = Block(c.downloadName, c.downloadBlock)
        BY <1>7, <3>1, <3>2, BlockKnown
      <3>4. c.downloadBlock = Size[c.downloadName] /\ c.downloadBlock > 0
        <4>1. c.downloadBlock = Size[c.downloadName]
          BY <1>7, <3>3 DEF IsEmpty, Block
        <4>2. Size[c.downloadName] \in Nat \ {0}
          BY <3>3, PaksTyped
        <4> QED
          BY <4>1, <4>2
      <3>5. c.temp = Whole(c.downloadName) /\ c.open
        <4>1. /\ c.open /\ Len(c.temp) = c.downloadBlock
              /\ \A k \in 1..c.downloadBlock : c.temp[k] = Block(c.downloadName, k - 1)
          BY <3>3, <3>4 DEF Served, Collected
        <4> QED
          BY <1>3, <3>3, <3>4, <4>1, WholeKnown
      <3>6. v.temp = Whole(c.downloadName)
        <4>1. v.temp = c.temp \o <<>>
          BY <1>2, <1>7, <3>5
        <4>2. c.temp \o <<>> = c.temp
          BY <1>3
        <4> QED
          BY <3>5, <4>1, <4>2
      <3>7. DiskInv(e)
        <4>1. e.saved = c.saved \cup {[name |-> c.downloadName, content |-> v.temp]}
          BY <1>2, <1>4
        <4>2. e.redirected \subseteq Files /\ e.bad = c.bad
          BY <1>2, <1>4, <3>2 DEF DiskInv
        <4> QED
          BY <3>2, <3>3, <3>6, <4>1, <4>2, SavedDisk
      <3>8. Appended(c, e, a)
        BY <1>2, <1>4 DEF Appended
      <3>9. /\ e.state = "connected" /\ ~e.open /\ e.bWWWDl = c.bWWWDl
            /\ e.fetching = c.fetching /\ e.downloadList = c.downloadList
            /\ e.downloadName = None
        BY <1>2, <1>4, <1>7
      <3>10. /\ a.cmd = "nextdl" /\ s.download /\ a.arg = c.downloadBlock
             /\ a.arg = Size[s.downloadName] /\ a.arg < Half /\ a.arg < s.currentBlock
        BY <1>n, <3>3, <3>4 DEF a
      <3>11. Ready(s, e, w, web)
        BY <1>4, <3>2, <3>3, <3>8, <3>9, <3>10, FileLeft
      <3>12. Protocol(s, d, w, web)
        BY <1>4, <2>1, <3>11, NextDownloadKept
      <3> QED
        BY <2>2, <3>7, <3>12
    <2> QED
      BY <2>2, <2>3 DEF Kept
  <1> QED
    BY <1>5, <1>6, <1>7

\* A redirect is answered.
LEMMA RedirectParsed ==
    ASSUME NEW s \in Servers, NEW c \in Clients, c.downloadName # None,
           NEW w \in Seq(Messages), NEW web \in Mirrors,
           NEW m, m.type = "www", m.file \in Named,
           Kept(s, c, w, web), ~c.mixed => MessageInv(s, c, web, m)
    PROVE  LET d == ParseRedirect(c, m.file) IN d \in Clients /\ Kept(s, d, w, web)
  <1> DEFINE f == m.file
             x == c.mixed \/ f # c.downloadName
             e == [c EXCEPT !.bWWWDl = TRUE, !.mixed = x]
             v == CL_AddReliableCommand(e, "wwwdl_ack", None)
             y == [v EXCEPT !.aborting = TRUE]
             z == CL_AddReliableCommand(y, "wwwdl_fail", None)
             u == [v EXCEPT !.fetching = f]
             a == [cmd |-> "wwwdl_ack", arg |-> None]
             b == [cmd |-> "wwwdl_fail", arg |-> None]
             d == ParseRedirect(c, f)
  <1>1. d = IF c.bWWWDl THEN c ELSE IF c.downloadName \in c.bad THEN z ELSE u
    BY DEF ParseRedirect
  <1>2. x \in BOOLEAN /\ f \in Named /\ c.mixed \in BOOLEAN /\ c.bWWWDl \in BOOLEAN
    BY DEF Clients
  <1>3. /\ a \in Commands /\ b \in Commands /\ a.cmd = "wwwdl_ack" /\ b.cmd = "wwwdl_fail"
    BY CommandType DEF Plain
  <1>4. x = (c.mixed \/ f # c.downloadName)
    OBVIOUS
  <1> HIDE DEF f, x, d
  <1>5. /\ e \in Clients /\ SameFiles(c, e) /\ e.bWWWDl = TRUE /\ e.fetching = c.fetching
        /\ e.redirected = c.redirected /\ e.bad = c.bad /\ e.saved = c.saved
        /\ e.mixed = x /\ e.commands = c.commands
    BY <1>2 DEF Clients, SameFiles
  <1> HIDE DEF e
  <1>6. v \in Clients /\ SameClient(e, v) /\ SameDisk(e, v) /\ Appended(e, v, a)
    BY <1>3, <1>5, CommandAdded
  <1> HIDE DEF v
  <1>7. /\ u \in Clients /\ SameFiles(v, u) /\ u.bWWWDl = v.bWWWDl /\ u.fetching = f
        /\ SameDisk(v, u) /\ u.commands = v.commands
    BY <1>2, <1>6 DEF Clients, SameFiles, SameDisk
  <1>8. /\ y \in Clients /\ SameFiles(v, y) /\ y.bWWWDl = v.bWWWDl
        /\ y.fetching = v.fetching /\ SameDisk(v, y) /\ y.commands = v.commands
    BY <1>6 DEF Clients, SameFiles, SameDisk
  <1> HIDE DEF y, u
  <1>9. z \in Clients /\ SameClient(y, z) /\ SameDisk(y, z) /\ Appended(y, z, b)
    BY <1>3, <1>8, CommandAdded
  <1> HIDE DEF z, a, b
  <1> SUFFICES d \in Clients /\ Kept(s, d, w, web)
    BY DEF d, f
  <1>10. CASE c.bWWWDl
    BY <1>1, <1>10
  <1>11. CASE ~c.bWWWDl
    <2>1. d = z \/ d = u
      BY <1>1, <1>11
    <2>2. d \in Clients
      BY <1>7, <1>9, <2>1
    <2>3. /\ d.mixed = x /\ d.redirected = c.redirected /\ d.bad = c.bad
          /\ d.saved = c.saved /\ SameFiles(c, d) /\ d.bWWWDl = TRUE
      <3>1. /\ u.mixed = x /\ u.redirected = c.redirected /\ u.bad = c.bad
            /\ u.saved = c.saved /\ SameFiles(c, u) /\ u.bWWWDl = TRUE
        BY <1>5, <1>6, <1>7 DEF SameFiles, SameClient, SameDisk
      <3>2. /\ z.mixed = x /\ z.redirected = c.redirected /\ z.bad = c.bad
            /\ z.saved = c.saved /\ SameFiles(c, z) /\ z.bWWWDl = TRUE
        BY <1>5, <1>6, <1>8, <1>9 DEF SameFiles, SameClient, SameDisk
      <3> QED
        BY <2>1, <3>1, <3>2
    <2>4. ASSUME ~d.mixed PROVE Protocol(s, d, w, web) /\ DiskInv(d)
      <3>1. ~c.mixed /\ m.file = c.downloadName
        BY <1>4, <2>3, <2>4 DEF f
      <3>2. Protocol(s, c, w, web) /\ DiskInv(c) /\ MessageInv(s, c, web, m)
        BY <3>1 DEF Kept
      <3>3. DiskInv(d)
        BY <2>3, <3>2 DEF DiskInv
      <3>4. Len(c.commands) = 0 /\ c.fetching = None
        BY <1>11, <3>1, <3>2, RedirectKnown
      <3>5. Len(v.commands) = 1 /\ v.commands[1] = a /\ v.fetching = None
        BY <1>5, <1>6, <3>4 DEF Appended, SameClient
      <3>6. CASE d = u
        <4>1. /\ d.fetching = c.downloadName /\ Len(d.commands) = 1
              /\ d.commands[1].cmd = "wwwdl_ack"
          BY <1>3, <1>7, <3>1, <3>5, <3>6 DEF f
        <4>2. Protocol(s, d, w, web)
          BY <1>11, <2>2, <2>3, <3>1, <3>2, <4>1, RedirectAnswered
        <4> QED
          BY <3>3, <4>2
      <3>7. CASE d = z
        <4>1. Len(z.commands) = 2 /\ z.commands[2] = b /\ z.commands[1] = a
          <5>1. Len(y.commands) = 1 /\ y.commands[1] = a /\ 1 \in 1..1 /\ 1 + 1 = 2
            BY <1>8, <3>5
          <5> QED
            BY <1>9, <5>1 DEF Appended
        <4>2. /\ d.fetching = None /\ Len(d.commands) = 2
              /\ d.commands[1].cmd = "wwwdl_ack" /\ d.commands[2].cmd = "wwwdl_fail"
          BY <1>3, <1>8, <1>9, <3>5, <3>7, <4>1 DEF SameClient
        <4>3. Protocol(s, d, w, web)
          BY <1>11, <2>2, <2>3, <3>1, <3>2, <4>2, RedirectAnswered
        <4> QED
          BY <3>3, <4>3
      <3> QED
        BY <2>1, <3>6, <3>7
    <2> QED
      BY <2>2, <2>4 DEF Kept
  <1> QED
    BY <1>10, <1>11

\* A message of the server's for a client that waits for a file, or no more.
LEMMA DownloadParsed ==
    ASSUME NEW s \in Servers, NEW c \in Clients, c.state = "connected",
           NEW w \in Seq(Messages), NEW web \in Mirrors,
           NEW m \in Messages, m.type # "gamestate",
           Kept(s, c, w, web), ~c.mixed => MessageInv(s, c, web, m)
    PROVE  LET d == CL_ParseDownload(c, m) IN d \in Clients /\ Kept(s, d, w, web)
  <1> DEFINE d == CL_ParseDownload(c, m)
             v == CL_AddReliableCommand(c, "stopdl", None)
  <1>1. d = IF c.downloadName = None THEN v
            ELSE IF m.type = "www" THEN ParseRedirect(c, m.file)
            ELSE ParseBlock(c, m)
    BY DEF CL_ParseDownload
  <1>2. [cmd |-> "stopdl", arg |-> None] \in Commands
    BY CommandType DEF Plain
  <1>3. /\ v \in Clients /\ SameClient(c, v) /\ SameDisk(c, v)
        /\ Appended(c, v, [cmd |-> "stopdl", arg |-> None])
    BY <1>2, CommandAdded
  <1>4. (m.type = "www" /\ m.file \in Named) \/ (m.type = "block" /\ m.data \in Blocks)
    BY DEF Messages
  <1> HIDE DEF v, d
  <1> SUFFICES d \in Clients /\ Kept(s, d, w, web)
    BY DEF d
  <1>5. CASE c.downloadName = None
    <2>1. d = v
      BY <1>1, <1>5
    <2>2. ASSUME ~v.mixed PROVE Protocol(s, v, w, web) /\ DiskInv(v)
      <3>1. Protocol(s, c, w, web) /\ DiskInv(c)
        BY <1>3, <2>2 DEF SameDisk, Kept
      <3>2. DiskInv(v)
        BY <1>3, <3>1 DEF SameDisk, DiskInv
      <3> QED
        BY <1>3, <1>5, <3>1, <3>2, StopdlSent
    <2> QED
      BY <1>3, <2>1, <2>2 DEF Kept
  <1>6. CASE c.downloadName # None /\ m.type = "www"
    <2>1. d = ParseRedirect(c, m.file) /\ m.file \in Named
      BY <1>1, <1>4, <1>6
    <2> QED
      BY <1>6, <2>1, RedirectParsed
  <1>7. CASE c.downloadName # None /\ m.type = "block"
    <2>1. d = ParseBlock(c, m) /\ m.data \in Blocks
      BY <1>1, <1>4, <1>7
    <2> QED
      BY <1>7, <2>1, BlockParsed
  <1> QED
    BY <1>4, <1>5, <1>6, <1>7

\* The client with the list of the files it is to get.
LEMMA ListMade ==
    ASSUME NEW c \in Clients
    PROVE  \E e \in Clients :
              /\ Com_InitDownloads(c) = Com_NextDownload(e)
              /\ e.state = c.state /\ e.open = c.open /\ ~e.bWWWDl
              /\ e.fetching = c.fetching /\ e.downloadName = None
              /\ e.commands = c.commands /\ e.mixed = c.mixed
              /\ Distinct(e.downloadList)
              /\ DiskInv(c) => DiskInv(e)
  <1> DEFINE wrong == {f \in c.redirected \ c.known : \E r \in c.saved : r.name = f}
             b == c.bad \cup wrong
             u == {r \in c.saved : r.name \notin wrong}
             l == FS_ComparePaks(c.known)
             e == [c EXCEPT !.bWWWDl = FALSE, !.aborting = FALSE,
                            !.downloadName = None, !.downloadRestart = FALSE,
                            !.bad = b, !.redirected = {}, !.saved = u, !.downloadList = l]
  <1>1. Com_InitDownloads(c) = Com_NextDownload(e)
    BY DEF Com_InitDownloads
  <1>2. /\ c.bad \subseteq Named /\ c.redirected \subseteq Named
        /\ c.saved \in SUBSET [name : Named, content : Seq(Blocks)]
    BY DEF Clients
  <1>3. /\ wrong \subseteq c.redirected /\ b = c.bad \cup wrong /\ u \subseteq c.saved
        /\ b \in SUBSET Named /\ u \in SUBSET [name : Named, content : Seq(Blocks)]
    BY <1>2
  <1>4. l \in Seq(Files) /\ Distinct(l)
    BY Compared
  <1>n. None \in Named /\ {} \in SUBSET Named
    BY DEF Named
  <1> HIDE DEF wrong, b, u, l
  <1>5. /\ e \in Clients /\ e.state = c.state /\ e.open = c.open /\ e.bWWWDl = FALSE
        /\ e.fetching = c.fetching /\ e.downloadName = None
        /\ e.commands = c.commands /\ e.mixed = c.mixed
        /\ e.downloadList = l /\ e.bad = b /\ e.saved = u /\ e.redirected = {}
    BY <1>3, <1>4, <1>n DEF Clients
  <1> HIDE DEF e
  <1>6. DiskInv(c) => DiskInv(e)
    BY <1>3, <1>5 DEF DiskInv
  <1> QED
    BY <1>1, <1>4, <1>5, <1>6

\* A gamestate makes the client look for the files of its level.
LEMMA GamestateParsed ==
    ASSUME NEW s \in Servers, NEW c \in Clients, c.state = "connected", NEW n \in Nat,
           NEW w \in Seq(Messages), NEW web \in Mirrors,
           Kept(s, c, w, web), ~c.mixed => Coming(s, w) /\ ~s.gamestate,
           NEW v \in Seq(Messages), ~c.mixed => v = <<>>
    PROVE  LET d == CL_ParseGamestate(c, n) IN d \in Clients /\ Kept(s, d, v, web)
  <1> DEFINE a == [c EXCEPT !.serverId = n]
             b == IF n # c.serverId THEN FS_Restart(a) ELSE a
             d == CL_ParseGamestate(c, n)
  <1>1. d = Com_InitDownloads(b)
    BY DEF CL_ParseGamestate
  <1>2. /\ a \in Clients /\ SameClient(c, a) /\ a.commands = c.commands
        /\ a.redirected = c.redirected /\ a.bad = c.bad /\ a.saved = c.saved
        /\ a.mixed = c.mixed
    BY DEF Clients, SameClient
  <1> HIDE DEF a, d
  <1>3. /\ FS_Restart(a) \in Clients /\ SameClient(a, FS_Restart(a))
        /\ FS_Restart(a).commands = a.commands
        /\ FS_Restart(a).redirected = a.redirected /\ FS_Restart(a).bad = a.bad
        /\ FS_Restart(a).saved = a.saved /\ FS_Restart(a).mixed = a.mixed
    BY <1>2, Restarted
  <1>4. b = a \/ b = FS_Restart(a)
    OBVIOUS
  <1> HIDE DEF b
  <1>5. /\ b \in Clients /\ SameClient(c, b) /\ b.commands = c.commands
        /\ b.mixed = c.mixed /\ (DiskInv(c) => DiskInv(b))
    BY <1>2, <1>3, <1>4 DEF SameClient, DiskInv
  <1>6. PICK e \in Clients :
           /\ Com_InitDownloads(b) = Com_NextDownload(e)
           /\ e.state = b.state /\ e.open = b.open /\ ~e.bWWWDl
           /\ e.fetching = b.fetching /\ e.downloadName = None
           /\ e.commands = b.commands /\ e.mixed = b.mixed
           /\ Distinct(e.downloadList)
           /\ DiskInv(b) => DiskInv(e)
    BY <1>5, ListMade
  <1>7. d = Com_NextDownload(e)
    BY <1>1, <1>6
  <1>8. d \in Clients /\ d.mixed = e.mixed /\ (DiskInv(e) => DiskInv(d))
    BY <1>7, NextKeepsDisk
  <1>9. ASSUME ~d.mixed PROVE Protocol(s, d, v, web) /\ DiskInv(d)
    <2>1. /\ ~c.mixed /\ v = <<>> /\ Coming(s, w) /\ ~s.gamestate
          /\ Protocol(s, c, w, web) /\ DiskInv(c)
      BY <1>5, <1>6, <1>8, <1>9 DEF Kept
    <2>2. /\ e.state = "connected" /\ e.open = c.open /\ ~e.bWWWDl
          /\ e.fetching = c.fetching /\ e.downloadName = None /\ e.commands = c.commands
          /\ Distinct(e.downloadList)
      BY <1>5, <1>6 DEF SameClient
    <2>3. Ready(s, e, <<>>, web)
      BY <2>1, <2>2, GamestateTaken
    <2>4. Protocol(s, d, v, web)
      BY <1>7, <2>1, <2>3, NextDownloadKept
    <2> QED
      BY <1>5, <1>6, <1>8, <2>1, <2>4
  <1> QED
    BY <1>8, <1>9 DEF d, Kept

LEMMA ParseStep ==
    ASSUME Inv, CL_ParseServerMessage
    PROVE  Inv'
  <1> DEFINE m == Head(toClient)
             w == Tail(toClient)
             d == IF m.type = "gamestate" THEN CL_ParseGamestate(cl, m.serverId)
                  ELSE CL_ParseDownload(cl, m)
  <1>1. /\ cl.state = "connected" /\ toClient # <<>>
        /\ cl' = d /\ toClient' = w /\ sv' = sv /\ mirror' = mirror
    BY DEF CL_ParseServerMessage
  <1>2. /\ sv \in Servers /\ OpenHasName(sv) /\ sv.gamestate = FALSE
        /\ cl \in Clients /\ toClient \in Seq(Messages) /\ mirror \in Mirrors
    BY DEF Inv, Typed
  <1>3. w \in Seq(Messages) /\ m \in Messages
    BY <1>1, <1>2
  <1>4. /\ m.type = "gamestate" => m.serverId \in Nat
    BY <1>3 DEF Messages
  <1>5. ~cl.mixed => /\ Protocol(sv, cl, toClient, mirror) /\ DiskInv(cl)
    BY DEF Inv
  <1>6. ~cl.mixed =>
           /\ Protocol(sv, cl, w, mirror) /\ MessageInv(sv, cl, mirror, m)
           /\ m.type = "gamestate" => Coming(sv, toClient) /\ ~sv.gamestate /\ w = <<>>
    BY <1>1, <1>2, <1>5, TailKept
  <1> HIDE DEF m, w
  <1>7. d \in Clients /\ Kept(sv, d, w, mirror)
    <2>1. CASE m.type = "gamestate"
      <3>1. d = CL_ParseGamestate(cl, m.serverId) /\ m.serverId \in Nat
        BY <1>4, <2>1
      <3>2. Kept(sv, cl, toClient, mirror)
        BY <1>5 DEF Kept
      <3>3. ~cl.mixed => Coming(sv, toClient) /\ ~sv.gamestate
        BY <1>6, <2>1
      <3>4. ~cl.mixed => w = <<>>
        BY <1>6, <2>1
      <3> HIDE DEF d
      <3> QED
        BY <1>1, <1>2, <1>3, <3>1, <3>2, <3>3, <3>4, GamestateParsed
    <2>2. CASE m.type # "gamestate"
      <3>1. d = CL_ParseDownload(cl, m)
        BY <2>2
      <3>2. Kept(sv, cl, w, mirror) /\ (~cl.mixed => MessageInv(sv, cl, mirror, m))
        BY <1>5, <1>6 DEF Kept
      <3> HIDE DEF d
      <3> QED
        BY <1>1, <1>2, <1>3, <2>2, <3>1, <3>2, DownloadParsed
    <2> QED
      BY <2>1, <2>2
  <1> HIDE DEF d
  <1> QED
    BY <1>1, <1>2, <1>3, <1>7, InvKept DEF Kept

LEMMA WriteFailsStep ==
    ASSUME Inv, WriteFails
    PROVE  Inv'
  <1> DEFINE m == Head(toClient)
             w == Tail(toClient)
             x == cl.mixed \/ m.data.file # cl.downloadName
             c == [cl EXCEPT !.open = FALSE, !.faulty = FALSE, !.mixed = x]
             e == CL_AddReliableCommand(c, "stopdl", None)
             d == Com_NextDownload(e)
             a == [cmd |-> "stopdl", arg |-> None]
  <1>1. /\ cl.state = "connected" /\ toClient # <<>> /\ m.type = "block"
        /\ cl.downloadName # None /\ m.block = cl.downloadBlock
        /\ cl' = d /\ toClient' = w /\ sv' = sv /\ mirror' = mirror
    BY DEF WriteFails
  <1>2. /\ sv \in Servers /\ OpenHasName(sv) /\ sv.gamestate = FALSE
        /\ cl \in Clients /\ toClient \in Seq(Messages) /\ mirror \in Mirrors
    BY DEF Inv, Typed
  <1>3. w \in Seq(Messages) /\ x \in BOOLEAN
    <2>1. w \in Seq(Messages)
      BY <1>1, <1>2
    <2>2. cl.mixed \in BOOLEAN
      BY <1>2 DEF Clients
    <2> QED
      BY <2>1, <2>2
  <1>4. x = (cl.mixed \/ m.data.file # cl.downloadName)
    OBVIOUS
  <1>5. a \in Commands /\ a.cmd = "stopdl"
    BY CommandType DEF Plain
  <1>6. ~cl.mixed => /\ Protocol(sv, cl, w, mirror) /\ MessageInv(sv, cl, mirror, m)
                     /\ DiskInv(cl)
    BY <1>1, <1>2, TailKept DEF Inv
  <1> HIDE DEF m, w, x
  <1>7. /\ c \in Clients /\ c.state = cl.state /\ c.open = FALSE /\ c.mixed = x
        /\ c.bWWWDl = cl.bWWWDl /\ c.fetching = cl.fetching
        /\ c.downloadList = cl.downloadList /\ c.downloadRestart = cl.downloadRestart
        /\ c.downloadName = cl.downloadName /\ c.commands = cl.commands
        /\ c.redirected = cl.redirected /\ c.bad = cl.bad /\ c.saved = cl.saved
    BY <1>2, <1>3 DEF Clients
  <1> HIDE DEF c
  <1>8. e \in Clients /\ SameClient(c, e) /\ SameDisk(c, e) /\ Appended(c, e, a)
    BY <1>5, <1>7, CommandAdded
  <1> HIDE DEF a, e
  <1>9. d \in Clients /\ d.mixed = e.mixed /\ (DiskInv(e) => DiskInv(d))
    BY <1>8, NextKeepsDisk
  <1>10. ASSUME ~d.mixed PROVE Protocol(sv, d, w, mirror) /\ DiskInv(d)
    <2>1. ~cl.mixed /\ m.data.file = cl.downloadName
      BY <1>4, <1>7, <1>8, <1>9, <1>10 DEF SameDisk
    <2>2. Protocol(sv, cl, w, mirror) /\ MessageInv(sv, cl, mirror, m) /\ DiskInv(cl)
      BY <1>6, <2>1
    <2>3. DiskInv(e)
      BY <1>7, <1>8, <2>2 DEF SameDisk, DiskInv
    <2>4. Served(sv, cl) /\ sv.downloadName = cl.downloadName
      BY <1>1, <1>2, <2>1, <2>2, BlockKnown
    <2>5. Appended(cl, e, a)
      BY <1>7, <1>8 DEF Appended
    <2>6. cl.downloadRestart
      BY <1>1, <2>2 DEF Protocol, ClientInv
    <2>7. /\ e.state = "connected" /\ ~e.open /\ e.bWWWDl = cl.bWWWDl
          /\ e.fetching = cl.fetching /\ e.downloadList = cl.downloadList
          /\ e.downloadRestart
      BY <1>1, <1>7, <1>8, <2>6 DEF SameClient
    <2>8. Ready(sv, e, w, mirror)
      BY <1>1, <1>2, <1>3, <1>5, <1>8, <2>2, <2>4, <2>5, <2>7, FileLeft
    <2>9. Protocol(sv, d, w, mirror)
      BY <1>2, <1>3, <1>8, <2>8, NextDownloadKept
    <2> QED
      BY <1>9, <2>3, <2>9
  <1> HIDE DEF d
  <1> QED
    BY <1>1, <1>2, <1>3, <1>9, <1>10, InvKept

LEMMA WebStep ==
    ASSUME Inv, Com_WebDownloadComplete
    PROVE  Inv'
  <1> DEFINE c == [cl EXCEPT !.fetching = None]
             q == IF mirror[cl.fetching] = "good" THEN Whole(cl.fetching) ELSE <<>>
             f == c.downloadName
             u == Save(c, f, q)
             r == u.redirected \cup {f}
             v == [u EXCEPT !.bWWWDl = FALSE, !.redirected = r]
             e == CL_AddReliableCommand(v, "wwwdl_done", None)
             y == [c EXCEPT !.aborting = TRUE]
             z == CL_AddReliableCommand(y, "wwwdl_fail", None)
             d == Com_NextDownload(e)
             a == [cmd |-> "wwwdl_done", arg |-> None]
             b == [cmd |-> "wwwdl_fail", arg |-> None]
  <1>1. /\ cl.fetching # None
        /\ cl' = IF mirror[cl.fetching] = "missing" THEN z ELSE d
        /\ toClient' = toClient /\ sv' = sv /\ mirror' = mirror
    BY DEF Com_WebDownloadComplete
  <1>2. /\ sv \in Servers /\ OpenHasName(sv) /\ sv.gamestate = FALSE
        /\ cl \in Clients /\ toClient \in Seq(Messages) /\ mirror \in Mirrors
    BY DEF Inv, Typed
  <1>3. ~cl.mixed => Protocol(sv, cl, toClient, mirror) /\ DiskInv(cl)
    BY DEF Inv
  <1>4. a \in Commands /\ b \in Commands /\ a.cmd = "wwwdl_done" /\ b.cmd = "wwwdl_fail"
    BY CommandType DEF Plain
  <1>5. cl.fetching \in Files
    BY <1>1, <1>2 DEF Clients, Named
  <1>6. q \in Seq(Blocks) /\ (q # <<>> => q = Whole(cl.fetching))
    <2>1. Whole(cl.fetching) \in Seq(Blocks)
      BY <1>5, WholeType
    <2> QED
      BY <2>1
  <1>n. None \in Named
    BY DEF Named
  <1> HIDE DEF q, a, b
  <1>7. /\ c \in Clients /\ SameFiles(cl, c) /\ c.bWWWDl = cl.bWWWDl /\ c.fetching = None
        /\ SameDisk(cl, c) /\ c.commands = cl.commands /\ f = cl.downloadName /\ f \in Named
    BY <1>2, <1>n DEF Clients, SameFiles, SameDisk
  <1> HIDE DEF c, f
  <1>8. /\ y \in Clients /\ SameFiles(c, y) /\ y.bWWWDl = c.bWWWDl
        /\ y.fetching = c.fetching /\ SameDisk(c, y) /\ y.commands = c.commands
    BY <1>7 DEF Clients, SameFiles, SameDisk
  <1> HIDE DEF y
  <1>9. z \in Clients /\ SameClient(y, z) /\ SameDisk(y, z) /\ Appended(y, z, b)
    BY <1>4, <1>8, CommandAdded DEF b
  <1>10. /\ u \in Clients /\ u.downloadName = None
         /\ u.saved = c.saved \cup {[name |-> f, content |-> q]}
         /\ u.state = c.state /\ u.downloadList = c.downloadList
         /\ u.open = c.open /\ u.bWWWDl = c.bWWWDl /\ u.fetching = c.fetching
         /\ u.commands = c.commands /\ u.redirected = c.redirected
         /\ u.bad = c.bad /\ u.mixed = c.mixed
    BY <1>6, <1>7, Saved
  <1> HIDE DEF u, z
  <1>11. r \in SUBSET Named /\ r = u.redirected \cup {f}
    <2>1. u.redirected \in SUBSET Named
      BY <1>10 DEF Clients
    <2> QED
      BY <1>7, <2>1
  <1> HIDE DEF r
  <1>12. /\ v \in Clients /\ v.downloadName = None /\ v.saved = u.saved
         /\ v.state = u.state /\ v.downloadList = u.downloadList
         /\ v.open = u.open /\ v.bWWWDl = FALSE /\ v.fetching = u.fetching
         /\ v.commands = u.commands /\ v.redirected = r
         /\ v.bad = u.bad /\ v.mixed = u.mixed
    BY <1>10, <1>11 DEF Clients
  <1> HIDE DEF v
  <1>13. e \in Clients /\ SameClient(v, e) /\ SameDisk(v, e) /\ Appended(v, e, a)
    BY <1>4, <1>12, CommandAdded DEF a
  <1> HIDE DEF e
  <1>14. d \in Clients /\ d.mixed = e.mixed /\ (DiskInv(e) => DiskInv(d))
    BY <1>13, NextKeepsDisk
  <1>15. z \in Clients /\ Kept(sv, z, toClient, mirror)
    <2>1. ASSUME ~z.mixed PROVE Protocol(sv, z, toClient, mirror) /\ DiskInv(z)
      <3>1. ~cl.mixed
        BY <1>7, <1>8, <1>9, <2>1 DEF SameDisk
      <3>2. DiskInv(z)
        BY <1>3, <1>7, <1>8, <1>9, <3>1 DEF SameDisk, DiskInv
      <3>3. Appended(cl, z, b)
        BY <1>7, <1>8, <1>9 DEF Appended
      <3>4. SameFiles(cl, z) /\ z.bWWWDl = cl.bWWWDl /\ z.fetching = None
        BY <1>7, <1>8, <1>9 DEF SameFiles, SameClient
      <3>5. Protocol(sv, z, toClient, mirror)
        BY <1>1, <1>2, <1>3, <1>9, <3>1, <3>3, <3>4, WebMissing DEF b
      <3> QED
        BY <3>2, <3>5
    <2> QED
      BY <1>9, <2>1 DEF Kept
  <1>16. d \in Clients /\ Kept(sv, d, toClient, mirror)
    <2>1. ASSUME ~d.mixed PROVE Protocol(sv, d, toClient, mirror) /\ DiskInv(d)
      <3>1. ~cl.mixed
        BY <1>7, <1>10, <1>12, <1>13, <1>14, <2>1 DEF SameDisk
      <3>2. Protocol(sv, cl, toClient, mirror) /\ DiskInv(cl)
        BY <1>3, <3>1
      <3>3. cl.fetching = cl.downloadName
        BY <1>1, <1>2, <3>2, FetchingKnown
      <3>4. f \in Files /\ cl.fetching = f
        BY <1>5, <1>7, <3>3
      <3>5. DiskInv(e)
        <4>1. e.saved = cl.saved \cup {[name |-> f, content |-> q]} /\ e.bad = cl.bad
          BY <1>7, <1>10, <1>12, <1>13 DEF SameDisk
        <4>2. e.redirected = cl.redirected \cup {f}
          BY <1>7, <1>10, <1>11, <1>12, <1>13 DEF SameDisk
        <4>3. e.redirected \subseteq Files
          BY <3>2, <3>4, <4>2 DEF DiskInv
        <4>4. q # <<>> => q = Whole(f)
          BY <1>6, <3>4
        <4> QED
          BY <3>2, <3>4, <4>1, <4>3, <4>4, SavedDisk
      <3>6. Appended(cl, e, a)
        BY <1>7, <1>10, <1>12, <1>13 DEF Appended
      <3>7. /\ e.state = cl.state /\ e.open = cl.open /\ ~e.bWWWDl /\ e.fetching = None
            /\ e.downloadName = None /\ e.downloadList = cl.downloadList
        BY <1>7, <1>10, <1>12, <1>13 DEF SameFiles, SameClient
      <3>8. Ready(sv, e, toClient, mirror)
        BY <1>1, <1>2, <1>13, <3>2, <3>6, <3>7, WebDone DEF a
      <3>9. Protocol(sv, d, toClient, mirror)
        BY <1>2, <1>13, <3>8, NextDownloadKept
      <3> QED
        BY <1>14, <3>5, <3>9
    <2> QED
      BY <1>14, <2>1 DEF Kept
  <1> HIDE DEF d
  <1>17. cl' \in Clients /\ Kept(sv, cl', toClient, mirror)
    BY <1>1, <1>15, <1>16
  <1> QED
    BY <1>1, <1>2, <1>17, InvKept DEF Kept

-----------------------------------------------------------------------------
(* Theorems                                                                *)

LEMMA InitInv ==
    ASSUME Init
    PROVE  Inv
  <1> DEFINE B == [i \in 0..MAX_DOWNLOAD_WINDOW - 1 |-> Block(None, 0)]
             s == [state |-> "connected", serverId |-> 1, nextdl |-> FALSE,
                   gamestate |-> FALSE, downloadName |-> None, download |-> FALSE,
                   bWWWDl |-> FALSE, bWWWing |-> FALSE, bFallback |-> FALSE,
                   clientBlock |-> 0, currentBlock |-> 0, xmitBlock |-> 0, blocks |-> B]
  <1>1. PICK faulty \in BOOLEAN :
           cl = [state |-> "connected", serverId |-> 0, commands |-> <<>>,
                 downloadName |-> None, downloadList |-> <<>>, downloadRestart |-> FALSE,
                 downloadBlock |-> 0, open |-> FALSE, temp |-> <<>>,
                 bWWWDl |-> FALSE, aborting |-> FALSE, fetching |-> None,
                 redirected |-> {}, bad |-> {}, saved |-> {}, known |-> {},
                 faulty |-> faulty, mixed |-> FALSE]
    BY DEF Init
  <1>2. sv = s /\ toClient = <<>>
    BY DEF Init
  <1>3. mirror \in Mirrors
    BY DEF Init, Mirrors
  <1>n. None \in Named /\ <<>> \in Seq(Files) /\ <<>> \in Seq(Blocks)
        /\ <<>> \in Seq(Commands) /\ <<>> \in Seq(Messages)
    BY DEF Named
  <1>4. B \in [0..MAX_DOWNLOAD_WINDOW - 1 -> Blocks]
    <2>1. Block(None, 0) \in Blocks
      BY DEF Block, Blocks
    <2> QED
      BY <2>1
  <1> HIDE DEF B
  <1>5. /\ sv \in Servers /\ sv.state = "connected" /\ sv.gamestate = FALSE
        /\ sv.downloadName = None /\ sv.download = FALSE /\ sv.bWWWing = FALSE
        /\ sv.clientBlock = 0 /\ sv.currentBlock = 0 /\ sv.xmitBlock = 0
    BY <1>2, <1>4, <1>n DEF Servers
  <1>6. /\ cl \in Clients /\ cl.state = "connected" /\ cl.commands = <<>>
        /\ cl.downloadName = None /\ cl.downloadList = <<>> /\ cl.open = FALSE
        /\ cl.fetching = None /\ cl.redirected = {} /\ cl.bad = {} /\ cl.saved = {}
    BY <1>1, <1>n DEF Clients
  <1>7. 1..0 = {} /\ Len(<<>>) = 0
    OBVIOUS
  <1>8. WindowInv(sv)
    <2>1. 0 <= 0 + MAX_DOWNLOAD_WINDOW /\ 0 <= 0
      BY WindowType
    <2> QED
      BY <1>5, <2>1 DEF WindowInv
  <1>9. Protocol(sv, cl, toClient, mirror)
    BY <1>2, <1>5, <1>6, <1>7, <1>8
    DEF Protocol, AnswerInv, GamestateInv, Coming, ClientInv, ListInv, Unasked
  <1>10. DiskInv(cl)
    BY <1>6 DEF DiskInv
  <1> QED
    BY <1>2, <1>3, <1>5, <1>6, <1>9, <1>10, <1>n DEF Inv, Typed, OpenHasName

LEMMA StutterStep ==
    ASSUME Inv, UNCHANGED vars
    PROVE  Inv'
  BY DEF Inv, Typed, vars

\* The invariant that the other theorems rest on: in every state that is reached, the
\* commands a client has sent are what the server can execute in that order, the window
\* holds the blocks its numbers say, and each message is one the client can be sent where
\* it is; until the client takes what was another file's.
THEOREM InductiveInvariant == Spec => []Inv
  <1>1. Init => Inv
    BY InitInv
  <1>2. Inv /\ [Next]_vars => Inv'
    <2> SUFFICES ASSUME Inv, [Next]_vars PROVE Inv'
      OBVIOUS
    <2>1. ASSUME NEW n \in 0..Len(cl.commands), SV_ExecuteClientMessage(n) PROVE Inv'
      BY <2>1, ExecuteStep
    <2>2. CASE SV_WriteDownloadToClient
      BY <2>2, WriteStep
    <2>3. CASE SV_SendClientMessages
      BY <2>3, TimeoutStep
    <2>4. CASE SV_SpawnServer
      BY <2>4, SpawnStep
    <2>5. CASE CL_ParseServerMessage
      BY <2>5, ParseStep
    <2>6. CASE WriteFails
      BY <2>6, WriteFailsStep
    <2>7. CASE Com_WebDownloadComplete
      BY <2>7, WebStep
    <2>8. CASE UNCHANGED vars
      BY <2>8, StutterStep
    <2> QED
      BY <2>1, <2>2, <2>3, <2>4, <2>5, <2>6, <2>7, <2>8 DEF Next
  <1> QED
    BY <1>1, <1>2, PTL DEF Spec

\* TypeOK, in every state that is reached: the variables have their types, and the
\* window's ends are in order until the client takes what was another file's.
THEOREM TypeCorrect == Spec => []TypeOK
  <1>1. Inv => TypeOK
    <2> SUFFICES ASSUME Inv PROVE TypeOK
      OBVIOUS
    <2>1. /\ sv \in Servers /\ OpenHasName(sv) /\ sv.gamestate = FALSE
          /\ cl \in Clients /\ mirror \in Mirrors
      BY DEF Inv, Typed
    <2>2. /\ sv.state \in {"connected", "dropped", "timed_out"}
          /\ sv.downloadName \in Files \cup {None}
          /\ sv.blocks \in [0..MAX_DOWNLOAD_WINDOW - 1 -> Blocks]
          /\ {sv.clientBlock, sv.currentBlock, sv.xmitBlock} \subseteq Nat
      BY <2>1 DEF Servers, Named
    <2>3. /\ cl.state \in {"connected", "loading"}
          /\ cl.downloadName \in Files \cup {None} /\ cl.fetching \in Files \cup {None}
          /\ cl.temp \in Seq(Blocks) /\ cl.downloadList \in Seq(Files)
          /\ cl.known \subseteq Files
      BY <2>1 DEF Clients, Named
    <2>4. ~cl.mixed => /\ sv.clientBlock <= sv.currentBlock
                       /\ sv.currentBlock <= sv.clientBlock + MAX_DOWNLOAD_WINDOW
                       /\ sv.xmitBlock <= sv.currentBlock
                       /\ cl.redirected \subseteq Files /\ cl.bad \subseteq Files
      BY DEF Inv, Protocol, WindowInv, DiskInv
    <2> QED
      BY <2>1, <2>2, <2>3, <2>4 DEF TypeOK, OpenHasName, Mirrors
  <1> QED
    BY <1>1, InductiveInvariant, PTL

\* FilesAreTrueUnlessMixed: what a player has of a file on its disk, got block by block or
\* from the web server, is that file, however many messages were lost and sent again, and
\* however often the level changed or a file was given up.
THEOREM FilesTrue == Spec => []FilesAreTrueUnlessMixed
  <1>1. Inv => FilesAreTrueUnlessMixed
    BY DEF Inv, DiskInv, FilesAreTrueUnlessMixed, FilesAreTrue
  <1> QED
    BY <1>1, InductiveInvariant, PTL

\* NoHonestDropUnlessMixed: the server drops no client for a "broken download" or for a
\* command about a redirect it does not expect (sv_client.c:1109, 1203).
THEOREM NobodyDropped == Spec => []NoHonestDropUnlessMixed
  <1>1. Inv => NoHonestDropUnlessMixed
    BY DEF Inv, Protocol, NoHonestDropUnlessMixed
  <1> QED
    BY <1>1, InductiveInvariant, PTL

\* A player that has all the files it waited for, or whose level is being loaded, is left
\* with no file open and no request to the web server: nothing that comes in later is
\* written to its disk.
THEOREM NothingLeftOpen ==
    Spec => [](~cl.mixed /\ cl.downloadName = None => ~cl.open /\ cl.fetching = None)
  <1>1. Inv => (~cl.mixed /\ cl.downloadName = None => ~cl.open /\ cl.fetching = None)
    BY DEF Inv, Protocol, ClientInv
  <1> QED
    BY <1>1, InductiveInvariant, PTL

\* While a file is collected, what was written of it is its beginning, as long as the
\* number of the block that is waited for.
THEOREM CollectedInOrder ==
    Spec => [](~cl.mixed /\ cl.open =>
                 /\ Len(cl.temp) = cl.downloadBlock
                 /\ \A k \in 1..cl.downloadBlock :
                       cl.temp[k] = Block(cl.downloadName, k - 1))
  <1>1. ASSUME Inv, ~cl.mixed, cl.open PROVE Collected(cl)
    <2>1. cl \in Clients /\ Protocol(sv, cl, toClient, mirror)
      BY <1>1 DEF Inv, Typed
    <2>2. \/ Asked(cl) \/ Served(sv, cl) \/ Fetching(sv, cl) \/ Failed(sv, cl)
          \/ Skipped(sv, cl)
      BY <1>1, <2>1 DEF Protocol, ClientInv
    <2>3. ~Asked(cl)
      <3>1. SUFFICES ASSUME Asked(cl) PROVE FALSE
        OBVIOUS
      <3>2. Len(cl.commands) \in 1..Len(cl.commands)
        <4>1. Len(cl.commands) \in Nat
          BY <2>1 DEF Clients
        <4> QED
          BY <3>1, <4>1 DEF Asked
      <3>3. RequestInv(sv, cl, Len(cl.commands))
        BY <2>1, <3>1, <3>2 DEF Protocol, CommandInv, Asked
      <3> QED
        BY <1>1, <3>3 DEF RequestInv
    <2> QED
      BY <1>1, <2>2, <2>3 DEF Served, Fetching, Failed, Skipped
  <1>2. Inv => (~cl.mixed /\ cl.open =>
                  /\ Len(cl.temp) = cl.downloadBlock
                  /\ \A k \in 1..cl.downloadBlock :
                        cl.temp[k] = Block(cl.downloadName, k - 1))
    BY <1>1 DEF Collected
  <1> QED
    BY <1>2, InductiveInvariant, PTL

=============================================================================
