----------------------------- MODULE Fireteams -----------------------------
(***************************************************************************)
(* Fireteams: how the players of a team found small groups, apply and are  *)
(* invited to them, answer, leave and hand them on, while players change   *)
(* teams, teams are swapped and shuffled, levels change, and client        *)
(* numbers get new owners.                                                 *)
(*                                                                         *)
(* game/g_fireteams.c, Cmd_Vote_f and SetTeam of game/g_cmds.c,            *)
(* game/g_team.c, game/g_session.c, game/g_client.c.                       *)
(*                                                                         *)
(* All of it runs in the server's one thread: a step is a command or an    *)
(* event.  What happens between the offers and the answers is what is      *)
(* hard.  Left out: warnings, the config strings that tell the players,    *)
(* who ignores whom, and what hinders a player from changing teams.        *)
(***************************************************************************)
EXTENDS Integers, SequencesExt, FiniteSetsExt

CONSTANTS
    Clients,              \* client numbers
    Bots,                 \* those that bots have
    AutoFireteams,        \* the values of g_autoFireteams looked at
    MAX_FIRETEAMS, MAX_FIRETEAM_MEMBERS,
    MaxOffers, GoOn,      \* bounds of the model: offers at a time; to go on when odd
    None

Fireteams == 1..MAX_FIRETEAMS

ASSUME FireteamsAssumption ==
    /\ IsFiniteSet(Clients) /\ Bots \subseteq Clients /\ None \notin Clients
    /\ AutoFireteams \subseteq 0..2
    /\ MAX_FIRETEAMS \in Nat /\ MAX_FIRETEAMS % 2 = 0
    /\ MAX_FIRETEAM_MEMBERS \in Nat \ {0} /\ MaxOffers \in Nat
    /\ GoOn \in BOOLEAN

VARIABLES
    conn,                 \* pers.connected of each client
    team,                 \* sess.sessionTeam
    fireTeams,            \* level.fireTeams
    offers,               \* what clients were asked and have still time to answer
    odd,                  \* a fireteam was kept whose members were not all there
    g_autoFireteams

vars == <<conn, team, fireTeams, offers, odd, g_autoFireteams>>

Sides == {"axis", "allies"}
Other(t) == CASE t = "axis" -> "allies" [] t = "allies" -> "axis" [] OTHER -> t

Members(t) == Range(t.joinOrder)
Leader(t)  == Head(t.joinOrder)
InUse(ft)  == {f \in Fireteams : ft[f].joinOrder # <<>>}
On(ft, c)  == {f \in InUse(ft) : c \in Members(ft[f])}
Led(ft, c) == {f \in InUse(ft) : Leader(ft[f]) = c}
OfTeam(ft, tm, t) == {f \in InUse(ft) : tm[Leader(ft[f])] = t}

\* Defect: lets one too many in.
Overfull(t) == Len(t.joinOrder) > MAX_FIRETEAM_MEMBERS

Full(t) == Len(t.joinOrder) >= MAX_FIRETEAM_MEMBERS

Unused == [ident |-> 0, priv |-> FALSE, joinOrder |-> <<>>]

\* The order in which they are answered.
Kinds == <<"application", "invitation", "proposition", "private", "create", "join">>

\* A client is asked about another (by another, for an invitation), who is the one who
\* had that client number then.
Ask(o, to, kind, about) ==
    {x \in o : x.to # to \/ x.kind # kind}
        \cup {[to |-> to, kind |-> kind, about |-> about, same |-> TRUE]}

Room == Cardinality(offers') <= MaxOffers

Init ==
    /\ conn = [c \in Clients |-> "disconnected"]
    /\ team = [c \in Clients |-> "free"]
    /\ fireTeams = [f \in Fireteams |-> Unused]
    /\ offers = {} /\ odd = FALSE
    /\ g_autoFireteams \in AutoFireteams

-----------------------------------------------------------------------------
(* The list of fireteams, given the teams of the clients                   *)

G_FindFreeFireteamIdent(ft, tm, t) ==
    Min((1..MAX_FIRETEAMS \div 2) \ {ft[f].ident : f \in OfTeam(ft, tm, t)})

MayRegister(ft, tm, c) ==
    /\ On(ft, c) = {} /\ InUse(ft) # Fireteams
    /\ tm[c] \in Sides
    /\ Cardinality(OfTeam(ft, tm, tm[c])) < MAX_FIRETEAMS \div 2

G_RegisterFireteam(ft, tm, c) ==
    IF ~MayRegister(ft, tm, c) THEN ft
    ELSE [ft EXCEPT ![Min(Fireteams \ InUse(ft))] =
             [ident |-> G_FindFreeFireteamIdent(ft, tm, tm[c]), priv |-> FALSE,
              joinOrder |-> <<c>>]]

\* Who registers is asked whether the fireteam is to be private.
AskedForPrivacy(ft, tm, c, o) ==
    IF g_autoFireteams = 1 /\ MayRegister(ft, tm, c) THEN Ask(o, c, "private", None) ELSE o

\* Defect: does not look whether the client is on a fireteam already.
AddToAnother(ft, tm, c, leader) ==
    IF tm[c] # tm[leader] \/ Led(ft, leader) = {} \/ Full(ft[Min(Led(ft, leader))]) THEN ft
    ELSE [ft EXCEPT ![Min(Led(ft, leader))].joinOrder = Append(@, c)]

G_AddClientToFireteam(ft, tm, c, leader) ==
    IF \/ tm[c] # tm[leader] \/ Led(ft, leader) = {} \/ On(ft, c) # {}
       \/ Full(ft[Min(Led(ft, leader))])
    THEN ft
    ELSE [ft EXCEPT ![Min(Led(ft, leader))].joinOrder = Append(@, c)]

G_OnlyBotsInFireteam(rest) == Range(rest) \subseteq Bots

\* Defect: the next in the order inherits, bot or not.
NextInOrder(rest) == rest

\* The first human and a bot at the head of the list change places.
HeirFirst(rest) ==
    LET h == Max({1, SelectInSeq(rest, LAMBDA c : c \notin Bots)})
    IN  [rest EXCEPT ![1] = rest[h], ![h] = rest[1]]

\* A fireteam left by its leader to nobody or to bots is disbanded.
G_RemoveClientFromFireteams(ft, c) ==
    LET f    == Min(On(ft, c))
        rest == RemoveFirst(ft[f].joinOrder, c)
    IN  IF On(ft, c) = {} THEN ft
        ELSE IF c # Leader(ft[f]) THEN [ft EXCEPT ![f].joinOrder = rest]
        ELSE IF G_OnlyBotsInFireteam(rest) THEN [ft EXCEPT ![f] = Unused]
        ELSE [ft EXCEPT ![f].joinOrder = HeirFirst(rest)]

\* The first public fireteam of the team with room for one more.
FreePublic(ft, tm, t) == {f \in OfTeam(ft, tm, t) : ~ft[f].priv /\ ~Full(ft[f])}
G_FindFreePublicFireteam(ft, tm, t) == Min(FreePublic(ft, tm, t))

-----------------------------------------------------------------------------
(* Commands of the client c                                                *)

Here(c) == conn[c] = "connected"

Create(c) ==
    /\ Here(c)
    /\ fireTeams' = G_RegisterFireteam(fireTeams, team, c)
    /\ offers' = AskedForPrivacy(fireTeams, team, c, offers) /\ Room
    /\ UNCHANGED <<conn, team, odd, g_autoFireteams>>

\* One member after the other leaves, the leader first; the players are told at the end.
G_DestroyFireteam(c) ==
    /\ Here(c) /\ Led(fireTeams, c) # {}
    /\ fireTeams' = [fireTeams EXCEPT ![Min(Led(fireTeams, c))] = Unused]
    /\ UNCHANGED <<conn, team, offers, odd, g_autoFireteams>>

Leave(c) ==
    /\ Here(c) /\ On(fireTeams, c) # {}
    /\ fireTeams' = G_RemoveClientFromFireteams(fireTeams, c)
    /\ UNCHANGED <<conn, team, offers, odd, g_autoFireteams>>

G_ApplyToFireTeam(c, f) ==
    /\ Here(c)
    /\ On(fireTeams, c) = {} /\ f \in InUse(fireTeams) /\ ~Full(fireTeams[f])
    /\ offers' = Ask(offers, Leader(fireTeams[f]), "application", c) /\ Room
    /\ UNCHANGED <<conn, team, fireTeams, odd, g_autoFireteams>>

MayInvite(c, other) ==
    /\ Led(fireTeams, c) # {} /\ team[c] = team[other]
    /\ On(fireTeams, other) = {} /\ ~Full(fireTeams[Min(Led(fireTeams, c))])

\* Bots join, others are asked; o are the offers that remain.
G_InviteToFireTeam(c, other, o) ==
    \/ /\ ~MayInvite(c, other)
       /\ offers' = o /\ UNCHANGED fireTeams
    \/ /\ MayInvite(c, other) /\ other \in Bots
       /\ fireTeams' = G_AddClientToFireteam(fireTeams, team, other, c)
       /\ offers' = o
    \/ /\ MayInvite(c, other) /\ other \notin Bots
       /\ offers' = Ask(o, other, "invitation", c)
       /\ UNCHANGED fireTeams

Invite(c, other) ==
    /\ Here(c) /\ Here(other) /\ MayInvite(c, other)
    /\ G_InviteToFireTeam(c, other, offers) /\ Room
    /\ UNCHANGED <<conn, team, odd, g_autoFireteams>>

\* The leader is asked whether to invite the other.
G_ProposeFireTeamPlayer(c, other) ==
    /\ Here(c) /\ Here(other) /\ c # other
    /\ On(fireTeams, other) = {} /\ On(fireTeams, c) # {}
    /\ LET t == fireTeams[Min(On(fireTeams, c))]
       IN  /\ ~Full(t) /\ Leader(t) # c
           /\ offers' = Ask(offers, Leader(t), "proposition", other) /\ Room
    /\ UNCHANGED <<conn, team, fireTeams, odd, g_autoFireteams>>

\* The other is on the fireteam the client leads.
Leads(c, other) ==
    /\ Here(c) /\ Here(other) /\ c # other
    /\ Led(fireTeams, c) # {} /\ On(fireTeams, other) # {}
    /\ Min(Led(fireTeams, c)) = Min(On(fireTeams, other))

G_KickFireTeamPlayer(c, other) ==
    /\ Leads(c, other)
    /\ fireTeams' = G_RemoveClientFromFireteams(fireTeams, other)
    /\ UNCHANGED <<conn, team, offers, odd, g_autoFireteams>>

G_GiveAdminOfFireTeam(c, other) ==
    /\ Leads(c, other) /\ other \notin Bots
    /\ fireTeams' = [fireTeams EXCEPT ![Min(Led(fireTeams, c))].joinOrder =
                        <<other>> \o RemoveFirst(@, other)]
    /\ UNCHANGED <<conn, team, offers, odd, g_autoFireteams>>

Privacy(c) ==
    /\ Here(c) /\ Led(fireTeams, c) # {}
    /\ fireTeams' = [fireTeams EXCEPT ![Min(Led(fireTeams, c))].priv = ~@]
    /\ UNCHANGED <<conn, team, offers, odd, g_autoFireteams>>

-----------------------------------------------------------------------------
(* Answers: a client's vote, while it is asked something, is its answer to *)
(* the first of what it is asked                                           *)

FirstAsked(c) ==
    LET mine == {o \in offers : o.to = c}
        rank(o) == SelectInSeq(Kinds, LAMBDA k : k = o.kind)
    IN  CHOOSE o \in mine : \A p \in mine : rank(o) <= rank(p)

\* Whom it is about has left: the offer stays.
MayAnswer(c, kind) ==
    /\ Here(c) /\ \E o \in offers : o.to = c
    /\ FirstAsked(c).kind = kind
    /\ FirstAsked(c).about # None => Here(FirstAsked(c).about)

AnswerApplication(c, yes) ==
    /\ MayAnswer(c, "application")
    /\ fireTeams' = IF yes THEN G_AddClientToFireteam(fireTeams, team, FirstAsked(c).about, c)
                    ELSE fireTeams
    /\ offers' = offers \ {FirstAsked(c)}

AnswerInvitation(c, yes) ==
    /\ MayAnswer(c, "invitation")
    /\ fireTeams' = IF yes THEN G_AddClientToFireteam(fireTeams, team, c, FirstAsked(c).about)
                    ELSE fireTeams
    /\ offers' = offers \ {FirstAsked(c)}

AnswerProposition(c, yes) ==
    /\ MayAnswer(c, "proposition")
    /\ IF yes THEN G_InviteToFireTeam(c, FirstAsked(c).about, offers \ {FirstAsked(c)})
       ELSE offers' = offers \ {FirstAsked(c)} /\ UNCHANGED fireTeams

AnswerPrivate(c, yes) ==
    /\ MayAnswer(c, "private")
    /\ fireTeams' = IF yes /\ Led(fireTeams, c) # {}
                    THEN [fireTeams EXCEPT ![Min(Led(fireTeams, c))].priv = TRUE]
                    ELSE fireTeams
    /\ offers' = offers \ {FirstAsked(c)}

AnswerCreate(c, yes) ==
    /\ MayAnswer(c, "create")
    /\ fireTeams' = IF yes THEN G_RegisterFireteam(fireTeams, team, c) ELSE fireTeams
    /\ LET left == offers \ {FirstAsked(c)}
       IN  offers' = IF yes THEN AskedForPrivacy(fireTeams, team, c, left) ELSE left

\* What is closed is the offer to create a fireteam (g_cmds.c:3805): this one stays.
AnswerJoin(c, yes) ==
    /\ MayAnswer(c, "join") /\ yes
    /\ FreePublic(fireTeams, team, team[c]) # {}
    /\ fireTeams' = G_AddClientToFireteam(fireTeams, team, c,
                        Leader(fireTeams[G_FindFreePublicFireteam(fireTeams, team, team[c])]))
    /\ UNCHANGED offers

Cmd_Vote_f(c, yes) ==
    /\ \/ AnswerApplication(c, yes) \/ AnswerInvitation(c, yes) \/ AnswerProposition(c, yes)
       \/ AnswerPrivate(c, yes) \/ AnswerCreate(c, yes) \/ AnswerJoin(c, yes)
    /\ UNCHANGED <<conn, team, odd, g_autoFireteams>>

\* Twenty seconds are over.
Expire(o) ==
    /\ offers' = offers \ {o}
    /\ UNCHANGED <<conn, team, fireTeams, odd, g_autoFireteams>>

-----------------------------------------------------------------------------
(* Teams                                                                   *)

\* The fireteams and offers when the client, on no fireteam now, has come to the team t.
AutoFireteam(ft, tm, o, c, t) ==
    IF t \notin Sides \/ g_autoFireteams = 0 THEN [ft |-> ft, offers |-> o]
    ELSE IF g_autoFireteams = 1
    THEN [ft |-> ft, offers |-> Ask(o, c, IF FreePublic(ft, tm, t) # {} THEN "join" ELSE "create", None)]
    ELSE IF FreePublic(ft, tm, t) # {}
    THEN [ft |-> G_AddClientToFireteam(ft, tm, c, Leader(ft[G_FindFreePublicFireteam(ft, tm, t)])),
          offers |-> o]
    ELSE [ft |-> G_RegisterFireteam(ft, tm, c), offers |-> o]

\* Defect: a client that changes teams takes its fireteam along.
StaysOnFireteam(c) == fireTeams

LeavesFireteam(c) == G_RemoveClientFromFireteams(fireTeams, c)

SetTeam(c, t) ==
    LET now == [team EXCEPT ![c] = t]
        o   == {p \in offers : p.to # c \/ p.kind \notin {"create", "join"}}
        r   == AutoFireteam(LeavesFireteam(c), now, o, c, t)
    IN  /\ Here(c)
        /\ t = team[c] => t = "spectator" /\ On(fireTeams, c) # {}
        /\ team' = now /\ fireTeams' = r.ft /\ offers' = r.offers /\ Room
        /\ UNCHANGED <<conn, odd, g_autoFireteams>>

\* ClientBegin makes everybody connected who has a team.
BeginAll(S) == conn' = [c \in Clients |-> IF c \in S THEN "connected" ELSE conn[c]]

OnTeams == {c \in Clients : team[c] \in Sides}

G_swapTeams ==
    /\ OnTeams # {}
    /\ team' = [c \in Clients |-> Other(team[c])]
    /\ BeginAll(OnTeams)
    /\ UNCHANGED <<fireTeams, offers, odd, g_autoFireteams>>

\* The ways to put clients in order.
Orders == [S \in SUBSET Clients |-> SetToSeqs(S)]

\* One after the other, who changes teams leaves its fireteam.
Shuffled(order, to) ==
    LET left[k \in 0..Len(order)] ==
            IF k = 0 THEN fireTeams
            ELSE IF to[order[k]] = team[order[k]] THEN left[k - 1]
            ELSE G_RemoveClientFromFireteams(left[k - 1], order[k])
    IN  left[Len(order)]

\* The players in the order of some measure.
G_shuffleTeams ==
    \E order \in Orders[OnTeams] :
        LET place(c) == SelectInSeq(order, LAMBDA d : d = c) - 1
            to == [c \in Clients |-> IF c \notin OnTeams THEN team[c]
                                     ELSE IF place(c) % 4 \in {0, 3} THEN "axis" ELSE "allies"]
        IN  /\ OnTeams # {}
            /\ team' = to
            /\ fireTeams' = Shuffled(order, to)
            /\ BeginAll(OnTeams)
            /\ UNCHANGED <<offers, odd, g_autoFireteams>>

-----------------------------------------------------------------------------
(* Clients come and go, levels change                                      *)

\* The pers of the client is no more.
Forgotten(c) == {o \in offers : o.to # c}

ClientDisconnect(c) ==
    /\ conn[c] # "disconnected"
    /\ conn' = [conn EXCEPT ![c] = "disconnected"]
    /\ team' = [team EXCEPT ![c] = "free"]
    /\ fireTeams' = LeavesFireteam(c)
    /\ offers' = Forgotten(c)
    /\ UNCHANGED <<odd, g_autoFireteams>>

\* For the first time, or again: the game takes leave only of a client that had entered
\* the level.
ClientConnect(c) ==
    /\ conn' = [conn EXCEPT ![c] = "connecting"]
    /\ team' = [team EXCEPT ![c] = "spectator"]
    /\ fireTeams' = IF conn[c] = "connected" THEN LeavesFireteam(c) ELSE fireTeams
    /\ odd' = (odd \/ On(fireTeams', c) # {})
    /\ offers' = {IF o.about = c /\ conn[c] = "disconnected" THEN [o EXCEPT !.same = FALSE] ELSE o :
                     o \in Forgotten(c)}
    /\ UNCHANGED g_autoFireteams

ClientBegin(c) ==
    /\ conn[c] = "connecting"
    /\ BeginAll({c})
    /\ UNCHANGED <<team, fireTeams, offers, odd, g_autoFireteams>>

\* A new level, or the same again, the teams swapped or not: the fireteams are kept as they
\* are.  The clients that are not there yet are supposed to be let come first.
G_InitGame(swapteams) ==
    /\ \A c \in Clients : conn[c] # "connecting"
    /\ conn' = [c \in Clients |-> IF Here(c) THEN "connecting" ELSE conn[c]]
    /\ team' = IF swapteams THEN [c \in Clients |-> Other(team[c])] ELSE team
    /\ offers' = {}
    /\ UNCHANGED <<fireTeams, odd, g_autoFireteams>>

\* The server is stopped and started: nobody is there, but the fireteams are kept.
KillServer ==
    /\ conn' = [c \in Clients |-> "disconnected"]
    /\ team' = [c \in Clients |-> "free"]
    /\ odd' = (odd \/ InUse(fireTeams) # {})
    /\ offers' = {}
    /\ UNCHANGED <<fireTeams, g_autoFireteams>>

-----------------------------------------------------------------------------
Step ==
    \/ \E c \in Clients : Create(c) \/ G_DestroyFireteam(c) \/ Leave(c) \/ Privacy(c)
    \/ \E c \in Clients, f \in Fireteams : G_ApplyToFireTeam(c, f)
    \/ \E c, other \in Clients :
          \/ Invite(c, other) \/ G_ProposeFireTeamPlayer(c, other)
          \/ G_KickFireTeamPlayer(c, other) \/ G_GiveAdminOfFireTeam(c, other)
    \/ \E c \in Clients \ Bots, yes \in BOOLEAN : Cmd_Vote_f(c, yes)
    \/ \E o \in offers : Expire(o)
    \/ \E c \in Clients, t \in Sides \cup {"spectator"} : SetTeam(c, t)
    \/ G_swapTeams \/ G_shuffleTeams
    \/ \E c \in Clients : ClientDisconnect(c) \/ ClientConnect(c) \/ ClientBegin(c)
    \/ \E swapteams \in BOOLEAN : G_InitGame(swapteams)
    \/ KillServer

Next == (odd => GoOn) /\ Step

Spec == Init /\ [][Next]_vars

-----------------------------------------------------------------------------
(* Properties                                                              *)

\* The types of the variables.
TypeOK ==
    /\ conn \in [Clients -> {"disconnected", "connecting", "connected"}]
    /\ team \in [Clients -> Sides \cup {"spectator", "free"}]
    /\ \A f \in Fireteams :
          /\ fireTeams[f].joinOrder \in Seq(Clients) /\ fireTeams[f].priv \in BOOLEAN
          /\ fireTeams[f].ident \in 0..MAX_FIRETEAMS \div 2
          /\ Len(fireTeams[f].joinOrder) <= MAX_FIRETEAM_MEMBERS
    /\ offers \subseteq [to : Clients, kind : Range(Kinds), about : Clients \cup {None}, same : BOOLEAN]
    /\ odd \in BOOLEAN /\ g_autoFireteams \in AutoFireteams

\* "player can only be on single fire team" (g_fireteams.c:45), once, whatever offers it
\* accepts and others accept for it.
OneFireteam ==
    \A c \in Clients :
        /\ Cardinality(On(fireTeams, c)) <= 1
        /\ \A f \in On(fireTeams, c) :
              Cardinality({i \in DOMAIN fireTeams[f].joinOrder : fireTeams[f].joinOrder[i] = c}) = 1

\* The members of a fireteam are players of one team; two fireteams of a team have
\* different names.
OneTeamUnlessOdd ==
    odd \/ \A f \in InUse(fireTeams) :
              /\ team[Leader(fireTeams[f])] \in Sides
              /\ \A c \in Members(fireTeams[f]) : team[c] = team[Leader(fireTeams[f])]
              /\ \A g \in OfTeam(fireTeams, team, team[Leader(fireTeams[f])]) \ {f} :
                    fireTeams[g].ident # fireTeams[f].ident

\* A bot never becomes leader of a fireteam in which others were before it, although the
\* comment where the leader leaves says the contrary, "try to pick a bot as fireteam
\* leader" (g_fireteams.c:568): the code there puts the first human in the bot's place.
HumansLead ==
    [][\A f \in InUse(fireTeams) :
         f \in InUse(fireTeams)' /\ Leader(fireTeams[f])' # Leader(fireTeams[f])
            => Leader(fireTeams[f])' \notin Bots]_vars

\* Who becomes a member because its application was granted had applied: "this client has
\* requested to join your fireteam" (g_local.h:803).
JoinsAsAsked ==
    [][\A o \in offers \ offers' :
         o.kind = "application" /\ On(fireTeams, o.about) = {} /\ On(fireTeams, o.about)' # {}
            => o.same]_vars
=============================================================================
