---------------------------- MODULE ReactionCache ----------------------------
(***************************************************************************)
(* The reactions to one proposal as the web app shows them: the optimistic *)
(* mutations of api/reactionAPI.ts over Apollo's normalized cache, against *)
(* a server that keeps the promises of ReactionBook and answers several    *)
(* requests in any order.                                                  *)
(*                                                                         *)
(* A cached entry is what is stored of the Proposal: myReaction and the    *)
(* count of every reaction, 0 standing for a reaction not in the list.     *)
(* Reactions of other people do not change here; Others is how many there  *)
(* are.  The user has one account and may be signed out: the page is then  *)
(* answered as to a guest, and a mutation waits for a sign-in.             *)
(***************************************************************************)
EXTENDS Naturals, FiniteSets, Sequences, SequencesExt

CONSTANTS
  Me,         \* the address of the user's account
  Proposal,
  Reactions,
  Calls,      \* mutations the user has in flight; an answered one is reused
  Others,     \* Others[r]: how many other people reacted with r
  MaxClicks,  \* bound on the mutations of a behaviour
  None

ASSUME OthersType == Others \in [Reactions -> Nat]
ASSUME MaxClicksType == MaxClicks \in Nat
ASSUME NoneIsNoReaction == None \notin Reactions

VARIABLES
  book, request, applied, outcome, \* the server, see ReactionBook
  base,    \* the entry built from the server's answers
  layers,  \* one optimistic layer per mutation in flight, oldest first
  fetch,   \* the page query in flight and what it has read so far
  session, \* the browser's cookie authenticates the user
  clicks,  \* mutations so far
  quiet,   \* history: no answer was mixed with another one's, or failed, and
           \* nothing was hidden, since the page was last loaded
  hidden,  \* history: the page was last answered as to a guest, without my
           \* reaction, and its counts include it
  torn     \* history: a page query has read the counts and my reaction at
           \* moments between which my reaction changed

server == <<book, request, applied, outcome>>
vars == <<server, base, layers, fetch, session, clicks, quiet, hidden, torn>>

Server == INSTANCE ReactionBook WITH Users <- {Me}, Targets <- {Proposal}

ASSUME NoneIsNoRequest == None \notin Server!Request /\ None \notin BOOLEAN

Choice == Reactions \union {None}
Entry == [mine : Choice, counts : [Reactions -> Nat]]
Layer == [call : Calls, reaction : Choice, entry : Entry]
Fetch == [counts : [Reactions -> Nat], mine : Choice, read : SUBSET {"counts", "mine"},
          asMe : BOOLEAN, alone : BOOLEAN]

\* What the server would answer now to a request that is authenticated; a guest
\* is answered the same counts and no reaction (see ReadMine).
ServedMine ==
  IF \E r \in Reactions : <<Me, Proposal, r>> \in book
  THEN CHOOSE r \in Reactions : <<Me, Proposal, r>> \in book
  ELSE None

ServedCounts ==
  [r \in Reactions |->
     Others[r] + IF <<Me, Proposal, r>> \in book THEN 1 ELSE 0]

Init ==
  /\ Server!Init
  /\ base = [mine |-> None, counts |-> Others]
  /\ layers = <<>>
  /\ fetch = None
  /\ session \in BOOLEAN
  /\ clicks = 0
  /\ quiet = TRUE
  /\ hidden = FALSE
  /\ torn = FALSE

\* The page shows the newest layer.
View == IF layers = <<>> THEN base ELSE Last(layers).entry

(***************************************************************************)
(* _buildReactionMutationUpdater                                           *)
(***************************************************************************)
\* Mutated Updated: a reaction that was mine always loses one, chosen again or not.
UpdatedTakesFirst(entry, reaction) ==
  [mine   |-> reaction,
   counts |->
     [r \in Reactions |->
        CASE r = entry.mine /\ entry.counts[r] # 0 -> entry.counts[r] - 1
          [] r = reaction /\ r # entry.mine        -> entry.counts[r] + 1
          [] OTHER                                 -> entry.counts[r]]]

\* Mutated Updated: the reaction that was mine keeps its count.
UpdatedKeepsOld(entry, reaction) ==
  [mine   |-> reaction,
   counts |-> [r \in Reactions |-> entry.counts[r] + IF r = reaction THEN 1 ELSE 0]]

\* myReaction becomes the new reaction (null to clear it).  The new reaction
\* gains one; any other reaction that was mine loses one, if it is listed.
Updated(entry, reaction) ==
  [mine   |-> reaction,
   counts |->
     [r \in Reactions |->
        CASE r = reaction                               -> entry.counts[r] + 1
          [] r # reaction /\ r = entry.mine
               /\ entry.counts[r] # 0                   -> entry.counts[r] - 1
          [] OTHER                                      -> entry.counts[r]]]

(***************************************************************************)
(* Apollo: a layer stores what the updater computed from the layer below.  *)
(* Removing a layer computes the ones above it again, not those below.     *)
(***************************************************************************)
Pushed(below, stack, layer) ==
  LET under == IF stack = <<>> THEN below ELSE Last(stack).entry IN
  Append(stack, [layer EXCEPT !.entry = Updated(under, layer.reaction)])

Pending(c) == \E i \in DOMAIN layers : layers[i].call = c

Without(c, below) ==
  LET i == CHOOSE j \in DOMAIN layers : layers[j].call = c IN
  FoldLeft(LAMBDA stack, layer : Pushed(below, stack, layer),
           SubSeq(layers, 1, i - 1),
           SubSeq(layers, i + 1, Len(layers)))

(***************************************************************************)
(* The page                                                                *)
(***************************************************************************)
\* What the mutation that shows reaction as mine asks the server for.
RequestFor(reaction) ==
  IF reaction = None
  THEN [kind |-> "unset", user |-> Me, target |-> Proposal]
  ELSE [kind |-> "set", user |-> Me, target |-> Proposal, reaction |-> reaction]

Ask(c, reaction) == Server!Submit(c) /\ request'[c] = RequestFor(reaction)

\* The page query is no longer the only thing in flight.
Accompanied == IF fetch = None THEN None ELSE [fetch EXCEPT !.alone = FALSE]

LayerOf(c) == layers[CHOOSE j \in DOMAIN layers : layers[j].call = c]

\* handleReactionSelect: choosing the reaction shown as mine clears it.  The
\* buttons stay enabled while mutations are in flight.  Without a session the
\* server refuses the mutation, which takes no effect; its layer stays.
Click(c) ==
  /\ clicks < MaxClicks
  /\ clicks' = clicks + 1
  /\ request[c] = None /\ ~Pending(c)
  /\ \E type \in Reactions :
       LET reaction == IF type = View.mine THEN None ELSE type IN
       /\ IF session THEN Ask(c, reaction) ELSE UNCHANGED server
       /\ layers' = Pushed(base, layers,
                           [call |-> c, reaction |-> reaction, entry |-> base])
  /\ quiet' = (quiet /\ layers = <<>> /\ fetch = None /\ ~hidden)
  /\ fetch' = Accompanied
  /\ UNCHANGED <<base, session, hidden, torn>>

\* Mutated SignIn: the mutation is made again, with another optimistic layer.
SignInMutatesAgain(c) ==
  /\ Pending(c) /\ request[c] = None
  /\ session' = TRUE
  /\ Ask(c, LayerOf(c).reaction)
  /\ fetch' = Accompanied
  /\ layers' = Pushed(base, layers, LayerOf(c))
  /\ UNCHANGED <<base, clicks, quiet, hidden, torn>>

\* authErrorLink: the user signs in after UNAUTHENTICATED, and the mutation is
\* sent again as it was.
SignIn(c) ==
  /\ Pending(c) /\ request[c] = None
  /\ session' = TRUE
  /\ Ask(c, LayerOf(c).reaction)
  /\ fetch' = Accompanied
  /\ UNCHANGED <<base, layers, clicks, quiet, hidden, torn>>

\* What the session cookie says changes beside the page: the user logs out, the
\* token expires, or another tab signs in.
SessionChanges ==
  /\ session' = ~session
  /\ UNCHANGED <<server, base, layers, fetch, clicks, quiet, hidden, torn>>

\* The updater runs on the server's answer, then the layer is dropped.  A
\* failed UnsetReaction is answered like a successful one, with null.
Receive(c) ==
  /\ Pending(c)
  /\ outcome[c] # None
  /\ outcome[c] \/ request[c].kind = "unset"
  /\ Server!Forget(c)
  /\ base' = Updated(base, LayerOf(c).reaction)
  /\ layers' = Without(c, base')
  /\ quiet' = (quiet /\ outcome[c])
  /\ UNCHANGED <<fetch, session, clicks, hidden, torn>>

\* A failed SetReaction, or a sign-in that is refused, is answered with an
\* error, and the connection may break at any time: a toast, and the layer is
\* dropped.
ReceiveError(c) ==
  /\ Pending(c)
  /\ layers' = Without(c, base)
  /\ quiet' = FALSE
  /\ UNCHANGED <<server, base, fetch, session, clicks, hidden, torn>>

\* Nobody waits any more for the answer to c.
Discard(c) ==
  /\ ~Pending(c)
  /\ Server!Forget(c)
  /\ UNCHANGED <<base, layers, fetch, session, clicks, quiet, hidden, torn>>

\* Another query of the page (cache-and-network), authenticated or not.  It
\* reads the counts and my reaction by two statements, in either order.
Refetch ==
  /\ fetch = None
  /\ fetch' = [counts |-> Others, mine |-> None, read |-> {}, asMe |-> session,
               alone |-> layers = <<>> /\ \A c \in Calls : request[c] = None]
  /\ quiet' = (quiet /\ layers = <<>>)
  /\ UNCHANGED <<server, base, layers, session, clicks, hidden, torn>>

ReadCounts ==
  /\ fetch # None
  /\ "counts" \notin fetch.read
  /\ fetch' = [fetch EXCEPT !.counts = ServedCounts, !.read = @ \union {"counts"}]
  /\ UNCHANGED <<server, base, layers, session, clicks, quiet, hidden, torn>>

\* MyReaction of a request without an address is null.
ReadMine ==
  /\ fetch # None
  /\ "mine" \notin fetch.read
  /\ fetch' = [fetch EXCEPT !.mine = IF fetch.asMe THEN ServedMine ELSE None,
                            !.read = @ \union {"mine"}]
  /\ UNCHANGED <<server, base, layers, session, clicks, quiet, hidden, torn>>

\* I count once, under the reaction that is mine.
Mine(entry, r) == IF entry.mine = r THEN 1 ELSE 0
Coherent(entry) == \A r \in Reactions : entry.counts[r] = Others[r] + Mine(entry, r)

\* The answer overwrites the entry below the layers, which stay as they are.
FetchArrives ==
  /\ fetch # None
  /\ fetch.read = {"counts", "mine"}
  /\ base' = [mine |-> fetch.mine, counts |-> fetch.counts]
  /\ fetch' = None
  /\ quiet' = (quiet \/ fetch.alone)
  /\ hidden' = (~fetch.asMe /\ ~Coherent(base'))
  /\ torn' = ((torn /\ layers # <<>>) \/ (fetch.asMe /\ ~Coherent(base')))
  /\ UNCHANGED <<server, layers, session, clicks>>

\* The server serves the requests it has, one at a time.
Serve ==
  /\ \/ \E c \in Calls : Server!ApplySet(c) \/ Server!Answer(c)
     \/ \E served \in SUBSET Calls :
          served # {} /\ Server!ApplyUnset(Me, Proposal, served)
  /\ UNCHANGED <<base, layers, fetch, session, clicks, quiet, hidden, torn>>

Next ==
  \/ \E c \in Calls :
       Click(c) \/ SignIn(c) \/ Receive(c) \/ ReceiveError(c) \/ Discard(c)
  \/ SessionChanges
  \/ Refetch \/ ReadCounts \/ ReadMine \/ FetchArrives
  \/ Serve

Spec == Init /\ [][Next]_vars
-----------------------------------------------------------------------------
(***************************************************************************)
(* Properties                                                              *)
(***************************************************************************)
TypeOK ==
  /\ Server!TypeOK
  /\ base \in Entry
  /\ layers \in Seq(Layer)
  /\ \A i, j \in DOMAIN layers : layers[i].call = layers[j].call => i = j
  /\ fetch \in Fetch \union {None}
  /\ session \in BOOLEAN
  /\ clicks \in 0 .. MaxClicks
  /\ quiet \in BOOLEAN
  /\ hidden \in BOOLEAN
  /\ torn \in BOOLEAN

\* Whatever order answers come in and whichever fail, a failed UnsetReaction
\* taken for a success included, and whatever was loaded in the meantime, signed
\* in or not, the page never shows fewer reactions than other people gave, plus
\* mine: clearing mine never takes away, or hides, somebody else's.  A torn page
\* query is the one exception, until the page is loaded again.
CountsNeverShort ==
  ~torn => \A entry \in {base} \union {layers[i].entry : i \in DOMAIN layers} :
    \A r \in Reactions : entry.counts[r] >= Others[r] + Mine(entry, r)

\* One mutation at a time, answered with success and not mixed with a query of
\* the page, leaves the page in agreement with the server, also when it had to
\* wait for a sign-in; and a query with no mutation around brings back the
\* agreement that others have lost.  A page loaded by a guest agrees in the
\* counts; if they include a reaction of mine it is not shown as mine, and a
\* mutation of that page may count me twice, until the page is loaded again.
SettledAgrees ==
  quiet /\ layers = <<>> =>
    base = [mine |-> IF hidden THEN None ELSE ServedMine, counts |-> ServedCounts]

\* "If myReaction exists, remove 1 from existing reaction": what the page shows
\* counts me once under the reaction it shows as mine, and nowhere else.
CountsMatchMine == ~torn /\ ~hidden => Coherent(View)
=============================================================================
