---------------------------- MODULE ProgramsProofs ----------------------------
(***************************************************************************)
(* The programs beside the bike server, for any number of clients.  The    *)
(* poll and select servers: nobody gets another's character unless the     *)
(* poll server mixed them up, a character is in one place, and only a      *)
(* reset ends a server.  The web server: browsers get the pages that fit,  *)
(* and what ends it is known.  The test clients: whose code is refused,    *)
(* and why.                                                                *)
(***************************************************************************)
EXTENDS MCPrograms, FiniteSetTheorems, SequenceTheorems, WellFoundedInduction, TLAPS

Fds == 1..Cardinality(EchoClients)
Hung(c) == pc[c] \in {"ended", "killed"}

-------------------------------------------------------------------------------
(* The invariant of the echo servers                                       *)

EchoTypes ==
    /\ server \in {"poll", "select"} /\ alive \in BOOLEAN /\ ch \in Int
    /\ client \in [Fds -> EchoClients \cup {None}]
    /\ events \in [Fds -> {"in", "out"}]
    /\ link \in [EchoClients -> {"new", "backlog", "open", "closed"}]
    /\ error \in [EchoClients -> {"none", "pending", "broken"}]
    /\ inbox \in [EchoClients -> Int \cup {None}]
    /\ outbox \in [EchoClients -> Int \cup {None}]
    /\ pc \in [EchoClients -> {"connect", "write", "read", "ended", "killed"}]
    /\ left \in [EchoClients -> Int]
    /\ letter \in [EchoClients -> Int]

(* A descriptor is that of one open connection.                            *)
Slots ==
    /\ \A f \in Fds : client[f] # None => link[client[f]] = "open"
    /\ \A f, g \in Fds : client[f] = client[g] /\ client[f] # None => f = g

(* What poll or select has reported stays true until it is handled.        *)
Reports ==
    /\ ready \subseteq Fds \cup {0}
    /\ \A f \in Fds \cap ready :
          /\ client[f] # None
          /\ events[f] = "out" \/ inbox[client[f]] # None \/ Hung(client[f])

(* What a client has sent and not read, by where it is in its program.     *)
Clean(c) == inbox[c] = None /\ outbox[c] = None
Dialogue ==
    \A c \in EchoClients :
        /\ pc[c] = "connect" <=> link[c] = "new"
        /\ pc[c] \in {"connect", "write"} => Clean(c)
        /\ outbox[c] # None => inbox[c] = None
        /\ link[c] = "backlog" => outbox[c] = None /\ (pc[c] = "read" => inbox[c] # None)

(* OnePlace, and what belongs to it.                                       *)
Places ==
    \A f \in Fds : alive /\ client[f] # None =>
        LET c == client[f] IN
        /\ pc[c] = "write" => events[f] = "in"
        /\ pc[c] = "read" =>
              \/ inbox[c] # None /\ outbox[c] = None /\ events[f] = "in"
              \/ inbox[c] = None /\ outbox[c] = None /\ events[f] = "out"
              \/ inbox[c] = None /\ outbox[c] # None /\ events[f] = "in"
        /\ events[f] = "out" => inbox[c] = None /\ server = "poll"

(* Which letter it is, in whichever place.                                 *)
Spoilt(c) == server = "poll" /\ c \in spoilt
Letters ==
    /\ \A c \in EchoClients :
          /\ pc[c] = "read" /\ inbox[c] # None => inbox[c] = letter[c]
          /\ outbox[c] # None /\ ~Spoilt(c) => outbox[c] = letter[c] + 1
          /\ c \in wrong => Spoilt(c)
    /\ \A f \in Fds :
          alive /\ client[f] # None /\ events[f] = "out"
             /\ pc[client[f]] = "read" /\ client[f] \notin mixed
          => ch = letter[client[f]] + 1
    /\ wrong \subseteq EchoClients

(* Resets: a write fails only after one, or not at all.                    *)
Resets ==
    \A c \in EchoClients :
        /\ error[c] = "pending" => Hung(c) /\ c \in reset
        /\ error[c] = "broken" =>
              /\ Hung(c) /\ inbox[c] = None
              /\ \/ c \in reset /\ server = "poll"
                 \/ \A f \in Fds : client[f] = c => events[f] = "in"

Death == ~alive => server = "poll" /\ \E c \in EchoClients : c \in reset /\ link[c] = "open"

EchoInv ==
    EchoTypes /\ Slots /\ Reports /\ Dialogue /\ Places /\ Letters /\ Resets /\ Death

-------------------------------------------------------------------------------
(* The clients                                                             *)

LEMMA EchoInit == Echo!Init => EchoInv
<1> SUFFICES ASSUME Echo!Init PROVE EchoInv
    OBVIOUS
<1>1. Echo!Fds = Fds
    BY DEF Echo!Fds, Fds, Echo!Cardinality, Cardinality
<1>2. EchoTypes
    BY <1>1 DEF Echo!Init, EchoTypes
<1>3. Slots /\ Reports /\ Places
    BY <1>1, EchoAssumption DEF Echo!Init, Slots, Reports, Places
<1>4. Dialogue /\ Letters /\ Resets /\ Death
    BY <1>1, EchoAssumption DEF Echo!Init, Dialogue, Clean, Letters, Resets, Death
<1> QED
    BY <1>2, <1>3, <1>4 DEF EchoInv

LEMMA ConnectKeeps ==
    ASSUME EchoInv, NEW c \in EchoClients, Echo!Connect(c)
    PROVE  EchoInv'
<1>1. /\ alive /\ pc[c] = "connect"
      /\ pc' = [pc EXCEPT ![c] = "write"]
      /\ link' = [link EXCEPT ![c] = "backlog"]
      /\ UNCHANGED <<server, alive, ch, client, events, ready, error, inbox, outbox,
                     left, letter, wrong, reset, mixed, spoilt>>
    BY DEF Echo!Connect, Echo!history
<1>2. EchoTypes /\ Slots /\ Reports /\ Dialogue /\ Places /\ Letters /\ Resets /\ Death
    BY DEF EchoInv
<1>3. link[c] = "new" /\ Clean(c)
    BY <1>1, <1>2 DEF Dialogue
<1>4. EchoTypes'
    BY <1>1, <1>2 DEF EchoTypes
<1>5. Slots'
    BY <1>1, <1>2, <1>3 DEF Slots, EchoTypes
<1>6. Reports'
    BY <1>1, <1>2, <1>3 DEF Reports, Hung, EchoTypes
<1>7. Dialogue'
    BY <1>1, <1>2, <1>3 DEF Dialogue, Clean, EchoTypes
<1>8. Places'
    BY <1>1, <1>2, <1>3 DEF Places, Slots, EchoTypes
<1>9. Letters'
    BY <1>1, <1>2, <1>3 DEF Letters, Spoilt, EchoTypes
<1>10. Resets'
    BY <1>1, <1>2, <1>3 DEF Resets, Hung, EchoTypes
<1>11. Death'
    BY <1>1 DEF Death
<1> QED
    BY <1>4, <1>5, <1>6, <1>7, <1>8, <1>9, <1>10, <1>11 DEF EchoInv

LEMMA WriteKeeps ==
    ASSUME EchoInv, NEW c \in EchoClients, Echo!Write(c)
    PROVE  EchoInv'
<1>1. /\ alive /\ pc[c] = "write"
      /\ inbox' = [inbox EXCEPT ![c] = letter[c]]
      /\ pc' = [pc EXCEPT ![c] = "read"]
      /\ UNCHANGED <<server, alive, ch, client, events, link, ready, error, outbox,
                     left, letter, wrong, reset, mixed, spoilt>>
    BY DEF Echo!Write, Echo!history, Echo!slotVars
<1>2. EchoTypes /\ Slots /\ Reports /\ Dialogue /\ Places /\ Letters /\ Resets /\ Death
    BY DEF EchoInv
<1>3. letter[c] \in Int /\ letter[c] # None /\ Clean(c)
    BY <1>1, <1>2, EchoAssumption DEF Dialogue, EchoTypes
<1>4. EchoTypes'
    BY <1>1, <1>2, <1>3 DEF EchoTypes
<1>5. Slots'
    BY <1>1, <1>2 DEF Slots
<1>6. Reports'
    BY <1>1, <1>2, <1>3 DEF Reports, Hung, EchoTypes
<1>7. Dialogue'
    BY <1>1, <1>2, <1>3 DEF Dialogue, Clean, EchoTypes
<1>8. Places'
    BY <1>1, <1>2, <1>3 DEF Places, Clean, EchoTypes
<1>9. Letters'
    BY <1>1, <1>2, <1>3 DEF Letters, Spoilt, Places, EchoTypes
<1>10. Resets'
    BY <1>1, <1>2, <1>3 DEF Resets, Hung, EchoTypes
<1>11. Death'
    BY <1>1 DEF Death
<1> QED
    BY <1>4, <1>5, <1>6, <1>7, <1>8, <1>9, <1>10, <1>11 DEF EchoInv

LEMMA ReadKeeps ==
    ASSUME EchoInv, NEW c \in EchoClients, Echo!Read(c)
    PROVE  EchoInv'
<1>1. /\ pc[c] = "read" /\ outbox[c] # None
      /\ wrong' = IF outbox[c] = letter[c] + 1 THEN wrong ELSE wrong \cup {c}
      /\ letter' = [letter EXCEPT ![c] = outbox[c]]
      /\ outbox' = [outbox EXCEPT ![c] = None]
      /\ left' = [left EXCEPT ![c] = @ - 1]
      /\ pc' = [pc EXCEPT ![c] = IF left[c] = 1 THEN "ended" ELSE "write"]
      /\ UNCHANGED <<server, alive, ch, client, events, link, ready, error, inbox,
                     reset, mixed, spoilt>>
    BY DEF Echo!Read, Echo!history, Echo!slotVars
<1>2. EchoTypes /\ Slots /\ Reports /\ Dialogue /\ Places /\ Letters /\ Resets /\ Death
    BY DEF EchoInv
<1>3. outbox[c] \in Int
    BY <1>1, <1>2 DEF EchoTypes
<1>4. EchoTypes'
    BY <1>1, <1>2, <1>3 DEF EchoTypes
<1>5. Slots'
    BY <1>1, <1>2 DEF Slots
<1>6. Reports'
    BY <1>1, <1>2 DEF Reports, Hung, EchoTypes
<1>7. Dialogue'
    BY <1>1, <1>2, <1>3 DEF Dialogue, Clean, EchoTypes
<1>8. Places'
    BY <1>1, <1>2, <1>3 DEF Places, EchoTypes
<1>9. Letters'
    BY <1>1, <1>2, <1>3 DEF Letters, Spoilt, EchoTypes
<1>10. Resets'
    BY <1>1, <1>2, <1>3 DEF Resets, Hung, EchoTypes
<1>11. Death'
    BY <1>1, <1>2 DEF Death
<1> QED
    BY <1>4, <1>5, <1>6, <1>7, <1>8, <1>9, <1>10, <1>11 DEF EchoInv

LEMMA FindServerGoneKeeps ==
    ASSUME EchoInv, NEW c \in EchoClients, Echo!FindServerGone(c)
    PROVE  EchoInv'
<1>1. /\ ~alive /\ pc[c] \in {"write", "read"}
      /\ pc' = [pc EXCEPT ![c] = "ended"]
      /\ UNCHANGED <<server, alive, ch, client, events, link, ready, error, inbox,
                     outbox, left, letter, wrong, reset, mixed, spoilt>>
    BY DEF Echo!FindServerGone, Echo!history, Echo!slotVars
<1>2. EchoTypes /\ Slots /\ Reports /\ Dialogue /\ Places /\ Letters /\ Resets /\ Death
    BY DEF EchoInv
<1>3. EchoTypes'
    BY <1>1, <1>2 DEF EchoTypes
<1>4. Slots' /\ Death' /\ Places'
    BY <1>1, <1>2 DEF Slots, Death, Places
<1>5. Reports'
    BY <1>1, <1>2 DEF Reports, Hung, EchoTypes
<1>6. Dialogue'
    BY <1>1, <1>2 DEF Dialogue, Clean, EchoTypes
<1>7. Letters'
    BY <1>1, <1>2 DEF Letters, Spoilt, EchoTypes
<1>8. Resets'
    BY <1>1, <1>2 DEF Resets, Hung, EchoTypes
<1> QED
    BY <1>3, <1>4, <1>5, <1>6, <1>7, <1>8 DEF EchoInv

LEMMA KillKeeps ==
    ASSUME EchoInv, NEW c \in EchoClients, Echo!Kill(c)
    PROVE  EchoInv'
<1>1. /\ pc[c] \in {"write", "read"}
      /\ pc' = [pc EXCEPT ![c] = "killed"]
      /\ error' = [error EXCEPT ![c] = IF outbox[c] # None THEN "pending" ELSE @]
      /\ reset' = IF outbox[c] # None THEN reset \cup {c} ELSE reset
      /\ outbox' = [outbox EXCEPT ![c] = None]
      /\ UNCHANGED <<server, alive, ch, client, events, link, ready, inbox,
                     left, letter, wrong, mixed, spoilt>>
    BY DEF Echo!Kill, Echo!history, Echo!slotVars
<1>2. EchoTypes /\ Slots /\ Reports /\ Dialogue /\ Places /\ Letters /\ Resets /\ Death
    BY DEF EchoInv
<1>3. EchoTypes'
    BY <1>1, <1>2 DEF EchoTypes
<1>4. Slots' /\ Death'
    BY <1>1, <1>2 DEF Slots, Death
<1>5. Reports'
    BY <1>1, <1>2 DEF Reports, Hung, EchoTypes
<1>6. Dialogue'
    BY <1>1, <1>2 DEF Dialogue, Clean, EchoTypes
<1>7. Places'
    BY <1>1, <1>2 DEF Places, EchoTypes
<1>8. Letters'
    BY <1>1, <1>2 DEF Letters, Spoilt, EchoTypes
<1>9. Resets'
    BY <1>1, <1>2 DEF Resets, Hung, EchoTypes
<1> QED
    BY <1>3, <1>4, <1>5, <1>6, <1>7, <1>8, <1>9 DEF EchoInv

-------------------------------------------------------------------------------
(* The servers                                                             *)

Below == {ss \in Nat \X Nat : ss[1] < ss[2]}

(* The least of a set of numbers                                           *)
LEMMA MinIs ==
    ASSUME NEW S \in SUBSET Nat, S # {}
    PROVE  Echo!Min(S) \in S /\ \A y \in S : Echo!Min(S) <= y
<1>1. Below = OpToRel(<, Nat)
    BY DEF OpToRel, Below
<1>2. PICK x \in S : \A y \in S : ~(<<y, x>> \in Below)
    BY <1>1, NatLessThanWellFounded, WFMin
<1>3. ASSUME NEW y \in S PROVE x <= y
    <2>1. x \in Nat /\ y \in Nat
        OBVIOUS
    <2>2. <<y, x>> \in Nat \X Nat /\ <<y, x>>[1] = y /\ <<y, x>>[2] = x
        BY <2>1
    <2>3. ~(y < x)
        BY <1>2, <2>2 DEF Below
    <2> QED
        BY <2>1, <2>3
<1> QED
    BY <1>3 DEF Echo!Min

LEMMA FdsAre == Echo!Fds = Fds
BY DEF Echo!Fds, Fds, Echo!Cardinality, Cardinality

(* There is a free descriptor for each client in the backlog: the others   *)
(* have at most one each.                                                  *)
LEMMA FreeDescriptor ==
    ASSUME EchoTypes, Slots, NEW c \in EchoClients, link[c] = "backlog"
    PROVE  \E f \in Fds : client[f] = None
<1> DEFINE N == Cardinality(EchoClients)
<1>1. SUFFICES ASSUME \A f \in Fds : client[f] # None PROVE FALSE
    OBVIOUS
<1>2. client \in Injection(Fds, EchoClients \ {c})
    <2>1. \A f \in Fds : client[f] \in EchoClients \ {c}
        BY <1>1 DEF EchoTypes, Slots
    <2>2. client \in [Fds -> EchoClients \ {c}]
        BY <2>1 DEF EchoTypes
    <2>3. \A f, g \in Fds : client[f] = client[g] => f = g
        BY <1>1 DEF Slots
    <2> QED
        BY <2>2, <2>3 DEF Injection, IsInjective
<1>3. IsFiniteSet(EchoClients) /\ N \in Nat
    BY EchoAssumption, FS_CardinalityType
<1>4. IsFiniteSet(EchoClients \ {c}) /\ Cardinality(EchoClients \ {c}) = N - 1
    BY <1>3, FS_RemoveElement
<1>5. Cardinality(Fds) <= N - 1
    BY <1>2, <1>4, FS_Injection
<1>6. Cardinality(Fds) = N
    BY <1>3, FS_Interval DEF Fds
<1> QED
    BY <1>3, <1>5, <1>6

LEMMA AwaitKeeps ==
    ASSUME EchoInv, Echo!Await
    PROVE  EchoInv'
<1>1. /\ alive /\ ready' = Echo!Reported
      /\ UNCHANGED <<server, alive, ch, client, events, link, error, inbox, outbox,
                     pc, left, letter, wrong, reset, mixed, spoilt>>
    BY DEF Echo!Await, Echo!history, Echo!slotVars, Echo!clientVars
<1>2. EchoTypes /\ Slots /\ Reports /\ Dialogue /\ Places /\ Letters /\ Resets /\ Death
    BY DEF EchoInv
<1>3. Reports'
    BY <1>1, FdsAre DEF Reports, Hung, Echo!Reported, Echo!Readable, Echo!Hung,
                        Echo!server_sockfd, Fds
<1>4. EchoTypes' /\ Slots' /\ Dialogue' /\ Places' /\ Death'
    BY <1>1, <1>2 DEF EchoTypes, Slots, Dialogue, Clean, Places, Death
<1>5. Letters' /\ Resets'
    BY <1>1, <1>2 DEF Letters, Spoilt, Resets, Hung
<1> QED
    BY <1>3, <1>4, <1>5 DEF EchoInv

LEMMA AcceptKeeps ==
    ASSUME EchoInv, Echo!Accept
    PROVE  EchoInv'
<1>1. EchoTypes /\ Slots /\ Reports /\ Dialogue /\ Places /\ Letters /\ Resets /\ Death
    BY DEF EchoInv
<1> DEFINE free == {g \in Fds : client[g] = None}
           f == Echo!Min(free)
<1>2. PICK c \in EchoClients :
        /\ link[c] = "backlog"
        /\ client' = [client EXCEPT ![f] = c]
        /\ events' = [events EXCEPT ![f] = "in"]
        /\ link' = [link EXCEPT ![c] = "open"]
    BY FdsAre DEF Echo!Accept, Echo!Backlog
<1>3. /\ alive /\ ready' = ready \ {0}
      /\ UNCHANGED <<server, alive, ch, error, inbox, outbox,
                     pc, left, letter, wrong, reset, mixed, spoilt>>
    BY DEF Echo!Accept, Echo!Scan, Echo!history, Echo!clientVars, Echo!server_sockfd
<1>4. f \in Fds /\ client[f] = None
    <2>1. free # {} /\ free \in SUBSET Nat
        BY <1>1, <1>2, FreeDescriptor DEF Fds
    <2> QED
        BY <2>1, MinIs
<1> HIDE DEF f
<1>5. f \notin ready
    BY <1>1, <1>4 DEF Reports
<1>6. \A g \in Fds : client[g] # c
    BY <1>1, <1>2, EchoAssumption DEF Slots
<1>7. EchoTypes'
    BY <1>1, <1>2, <1>3 DEF EchoTypes
<1>8. Slots'
    BY <1>1, <1>2, <1>4, <1>6 DEF Slots, EchoTypes
<1>9. Reports'
    BY <1>1, <1>2, <1>3, <1>4, <1>5 DEF Reports, Hung, EchoTypes
<1>10. Dialogue'
    BY <1>1, <1>2, <1>3 DEF Dialogue, Clean, EchoTypes
<1>11. Places'
    BY <1>1, <1>2, <1>3, <1>4 DEF Places, Dialogue, EchoTypes
<1>12. Letters'
    BY <1>1, <1>2, <1>3, <1>4 DEF Letters, Spoilt, EchoTypes
<1>13. Resets'
    BY <1>1, <1>2, <1>3, <1>4 DEF Resets, Hung, EchoTypes
<1>14. Death'
    BY <1>3 DEF Death
<1> QED
    BY <1>7, <1>8, <1>9, <1>10, <1>11, <1>12, <1>13, <1>14 DEF EchoInv

(* What a call for a descriptor f that was reported may take for granted.  *)
LEMMA Handling ==
    ASSUME EchoInv, NEW f \in Fds, Echo!Scan(f)
    PROVE  /\ alive /\ ready' = ready \ {f} /\ f \in ready
           /\ client[f] \in EchoClients /\ link[client[f]] = "open"
           /\ pc[client[f]] \in {"write", "read", "ended", "killed"}
           /\ events[f] = "out" \/ inbox[client[f]] # None \/ Hung(client[f])
           /\ \A g \in Fds : client[g] = client[f] => g = f
<1>1. EchoTypes /\ Slots /\ Reports /\ Dialogue
    BY DEF EchoInv
<1>2. alive /\ ready # {} /\ f = Echo!Min(ready) /\ ready' = ready \ {f}
    BY DEF Echo!Scan
<1>3. f \in ready
    <2>1. ready \in SUBSET Nat
        BY <1>1 DEF Reports, Fds
    <2> QED
        BY <1>2, <2>1, MinIs
<1>4. client[f] \in EchoClients /\ link[client[f]] = "open"
    BY <1>1, <1>3 DEF EchoTypes, Reports, Slots
<1>5. pc[client[f]] \in {"write", "read", "ended", "killed"}
    BY <1>1, <1>4 DEF EchoTypes, Dialogue
<1> QED
    BY <1>1, <1>2, <1>3, <1>4, <1>5 DEF Reports, Slots

LEMMA CloseKeeps ==
    ASSUME EchoInv, NEW f \in Fds, Echo!Scan(f), Echo!Close(f), events[f] = "in",
           inbox[client[f]] = None, UNCHANGED <<server, pc, left, letter, wrong, reset>>
    PROVE  EchoInv'
<1> DEFINE c == client[f]
<1>1. EchoTypes /\ Slots /\ Reports /\ Dialogue /\ Places /\ Letters /\ Resets /\ Death
    BY DEF EchoInv
<1>2. /\ alive /\ ready' = ready \ {f}
      /\ c \in EchoClients /\ link[c] = "open" /\ Hung(c)
      /\ \A g \in Fds : client[g] = c => g = f
    BY Handling
<1>3. /\ client' = [client EXCEPT ![f] = None]
      /\ events' = [events EXCEPT ![f] = "in"]
      /\ link' = [link EXCEPT ![c] = "closed"]
      /\ UNCHANGED <<server, alive, ch, error, inbox, outbox,
                     pc, left, letter, wrong, reset, mixed, spoilt>>
    BY DEF Echo!Close, Echo!history
<1> HIDE DEF c
<1>4. EchoTypes'
    BY <1>1, <1>2, <1>3 DEF EchoTypes
<1>5. Slots'
    BY <1>1, <1>2, <1>3 DEF Slots, EchoTypes
<1>6. Reports'
    BY <1>1, <1>2, <1>3 DEF Reports, Hung, EchoTypes
<1>7. Dialogue'
    BY <1>1, <1>2, <1>3 DEF Dialogue, Clean, Hung, EchoTypes
<1>8. Places'
    BY <1>1, <1>2, <1>3 DEF Places, EchoTypes
<1>9. Letters'
    BY <1>1, <1>2, <1>3 DEF Letters, Spoilt, EchoTypes
<1>10. Resets'
    BY <1>1, <1>2, <1>3 DEF Resets, Hung, EchoTypes
<1>11. Death'
    BY <1>2, <1>3 DEF Death
<1> QED
    BY <1>4, <1>5, <1>6, <1>7, <1>8, <1>9, <1>10, <1>11 DEF EchoInv

LEMMA ServeKeeps ==
    ASSUME EchoInv, NEW f \in Fds, Echo!Scan(f), Echo!Serve(f), events[f] = "in",
           server = "poll", UNCHANGED <<server, pc, left, letter, wrong, reset>>
    PROVE  EchoInv'
<1> DEFINE c == client[f]
<1>1. EchoTypes /\ Slots /\ Reports /\ Dialogue /\ Places /\ Letters /\ Resets /\ Death
    BY DEF EchoInv
<1>2. /\ alive /\ ready' = ready \ {f}
      /\ c \in EchoClients /\ link[c] = "open"
      /\ pc[c] \in {"write", "read", "ended", "killed"}
      /\ \A g \in Fds : client[g] = c => g = f
    BY Handling
<1>3. /\ inbox[c] # None \/ error[c] = "pending"
      /\ ch' = IF inbox[c] # None THEN inbox[c] + 1 ELSE ch + 1
      /\ inbox' = [inbox EXCEPT ![c] = None]
      /\ error' = [error EXCEPT ![c] = IF inbox[c] # None THEN @ ELSE "broken"]
      /\ events' = [events EXCEPT ![f] = "out"]
      /\ mixed' = (mixed \cup Echo!Waiting) \ {c}
      /\ UNCHANGED <<server, alive, client, link, outbox,
                     pc, left, letter, wrong, reset, spoilt>>
    BY DEF Echo!Serve
<1>4. \A g \in Fds : client[g] # None /\ events[g] = "out" => client[g] \in Echo!Waiting
    BY FdsAre DEF Echo!Waiting
<1>5. inbox[c] = None => Hung(c) /\ c \in reset /\ error[c] = "pending"
    BY <1>1, <1>2, <1>3 DEF Resets
<1>6. inbox[c] # None => outbox[c] = None /\ inbox[c] \in Int /\ pc[c] # "write"
                         /\ error[c] # "broken"
    BY <1>1, <1>2 DEF Dialogue, Clean, EchoTypes, Resets
<1> HIDE DEF c
<1>7. EchoTypes'
    <2>1. ch' \in Int
        BY <1>1, <1>3, <1>6 DEF EchoTypes
    <2> QED
        BY <1>1, <1>2, <1>3, <2>1 DEF EchoTypes
<1>8. Slots'
    BY <1>1, <1>3 DEF Slots
<1>9. Reports'
    BY <1>1, <1>2, <1>3 DEF Reports, Hung, EchoTypes
<1>10. Dialogue'
    BY <1>1, <1>2, <1>3 DEF Dialogue, Clean, EchoTypes
<1>11. Places'
    BY <1>1, <1>2, <1>3, <1>5, <1>6 DEF Places, Hung, EchoTypes, c
<1>12. Letters'
    <2>1. ASSUME NEW g \in Fds, client[g] # None, events'[g] = "out",
                 pc[client[g]] = "read", client[g] \notin mixed'
          PROVE  ch' = letter[client[g]] + 1
        <3>1. CASE g = f
            BY <1>1, <1>2, <1>3, <1>5, <2>1, <3>1 DEF Letters, Hung, c
        <3>2. CASE g # f
            BY <1>1, <1>2, <1>3, <1>4, <2>1, <3>2 DEF EchoTypes
        <3> QED
            BY <3>1, <3>2
    <2> QED
        BY <1>1, <1>2, <1>3, <2>1 DEF Letters, Spoilt, EchoTypes
<1>13. Resets'
    <2>1. ASSUME NEW x \in EchoClients, x # c
          PROVE  error'[x] = error[x] /\ inbox'[x] = inbox[x]
        BY <1>1, <1>2, <1>3, <2>1 DEF EchoTypes
    <2>2. \A g \in Fds : client[g] # c => events'[g] = events[g]
        BY <1>1, <1>3 DEF EchoTypes, c
    <2>3. ASSUME NEW x \in EchoClients, x # c
          PROVE  /\ error'[x] = "pending" => Hung(x)' /\ x \in reset'
                 /\ error'[x] = "broken" =>
                       /\ Hung(x)' /\ inbox'[x] = None
                       /\ \/ x \in reset' /\ server' = "poll"
                          \/ \A g \in Fds : client'[g] = x => events'[g] = "in"
        BY <1>1, <1>3, <2>1, <2>2, <2>3 DEF Resets, Hung
    <2>4. /\ inbox'[c] = None
          /\ error'[c] \in {"pending", "broken"} => Hung(c) /\ c \in reset
        BY <1>1, <1>2, <1>3, <1>5, <1>6 DEF Resets, EchoTypes
    <2> QED
        BY <1>3, <2>3, <2>4 DEF Resets, Hung
<1>14. Death'
    BY <1>2, <1>3 DEF Death
<1> QED
    BY <1>7, <1>8, <1>9, <1>10, <1>11, <1>12, <1>13, <1>14 DEF EchoInv

LEMMA ReplyKeeps ==
    ASSUME EchoInv, NEW f \in Fds, Echo!Scan(f), Echo!Reply(f), events[f] = "out",
           UNCHANGED <<server, pc, left, letter, wrong, reset>>
    PROVE  EchoInv'
<1> DEFINE c == client[f]
<1>1. EchoTypes /\ Slots /\ Reports /\ Dialogue /\ Places /\ Letters /\ Resets /\ Death
    BY DEF EchoInv
<1>2. /\ alive /\ ready' = ready \ {f}
      /\ c \in EchoClients /\ link[c] = "open"
      /\ pc[c] \in {"write", "read", "ended", "killed"}
      /\ \A g \in Fds : client[g] = c => g = f
    BY Handling
<1>3. /\ events' = [events EXCEPT ![f] = "in"]
      /\ spoilt' = IF c \in mixed THEN spoilt \cup {c} ELSE spoilt
      /\ UNCHANGED <<server, ch, client, link, inbox, pc, left, letter, wrong, reset, mixed>>
    BY DEF Echo!Reply
<1>4. c # None
    BY <1>2, EchoAssumption
<1>5. inbox[c] = None /\ server = "poll" /\ pc[c] # "write"
      /\ (pc[c] = "read" => outbox[c] = None)
    BY <1>1, <1>2, <1>4 DEF Places
<1>6. /\ events'[f] = "in"
      /\ \A g \in Fds \ {f} : events'[g] = events[g] /\ client[g] # c
    BY <1>1, <1>2, <1>3 DEF EchoTypes
<1>7. events' \in [Fds -> {"in", "out"}]
    BY <1>1, <1>3 DEF EchoTypes
<1>8. CASE error[c] = "broken"
    <2>1. alive' = FALSE /\ UNCHANGED <<error, outbox>>
        BY <1>8 DEF Echo!Reply, Echo!Send
    <2>2. Hung(c) /\ c \in reset
        BY <1>1, <1>2, <1>8 DEF Resets
    <2> HIDE DEF c
    <2>3. EchoTypes' /\ Slots' /\ Places'
        BY <1>1, <1>3, <1>7, <2>1 DEF EchoTypes, Slots, Places
    <2>4. Reports'
        BY <1>1, <1>2, <1>3, <1>6, <2>1 DEF Reports, Hung
    <2>5. Dialogue' /\ Letters'
        BY <1>1, <1>3, <2>1 DEF Dialogue, Clean, Letters, Spoilt
    <2>6. Resets'
        BY <1>1, <1>3, <1>6, <2>1 DEF Resets, Hung
    <2>7. Death'
        BY <1>2, <1>3, <1>5, <2>1, <2>2 DEF Death
    <2> QED
        BY <2>3, <2>4, <2>5, <2>6, <2>7 DEF EchoInv
<1>9. CASE error[c] # "broken"
    <2>1. /\ error' = [error EXCEPT ![c] = IF Hung(c) THEN "broken" ELSE @]
          /\ outbox' = [outbox EXCEPT ![c] = IF Hung(c) THEN @ ELSE ch]
          /\ alive' = alive
        BY <1>9 DEF Echo!Reply, Echo!Send, Echo!Hung, Hung
    <2>2. ch \in Int /\ ch # None
        BY <1>1, EchoAssumption DEF EchoTypes
    <2>3. ~Hung(c) => pc[c] = "read"
        BY <1>2, <1>5 DEF Hung
    <2>4. c \notin mixed /\ ~Hung(c) => ch = letter[c] + 1
        BY <1>1, <1>2, <1>4, <2>3 DEF Letters
    <2>5. /\ error' \in [EchoClients -> {"none", "pending", "broken"}]
          /\ outbox' \in [EchoClients -> Int \cup {None}]
        BY <1>1, <2>1, <2>2 DEF EchoTypes
    <2>6. \A x \in EchoClients \ {c} : error'[x] = error[x] /\ outbox'[x] = outbox[x]
        BY <1>1, <2>1 DEF EchoTypes
    <2>7. /\ Hung(c) => error'[c] = "broken" /\ outbox'[c] = outbox[c]
          /\ ~Hung(c) => error'[c] = error[c] /\ outbox'[c] = ch
        BY <1>1, <1>2, <2>1 DEF EchoTypes
    <2>8. client[f] = c
        OBVIOUS
    <2> HIDE DEF c
    <2>9. EchoTypes'
        BY <1>1, <1>3, <1>7, <2>1, <2>5 DEF EchoTypes
    <2>10. Slots' /\ Death'
        BY <1>1, <1>3, <1>2, <2>1 DEF Slots, Death
    <2>11. Reports'
        BY <1>1, <1>2, <1>3, <1>6 DEF Reports, Hung
    <2>12. Dialogue'
        BY <1>1, <1>2, <1>3, <1>5, <2>3, <2>6, <2>7 DEF Dialogue, Clean, Hung
    <2>13. Places'
        <3>1. ASSUME NEW g \in Fds, client[g] # None, g # f
              PROVE  outbox'[client[g]] = outbox[client[g]] /\ events'[g] = events[g]
            BY <1>1, <1>6, <2>6, <3>1 DEF EchoTypes
        <3>2. pc[c] = "read" => outbox'[c] # None
            BY <2>2, <2>7 DEF Hung
        <3> QED
            BY <1>1, <1>2, <1>3, <1>5, <1>6, <2>8, <3>1, <3>2 DEF Places
    <2>14. Letters'
        <3>1. ASSUME NEW x \in EchoClients, outbox'[x] # None, ~(server' = "poll" /\ x \in spoilt')
              PROVE  outbox'[x] = letter[x] + 1
            <4>1. CASE x = c
                BY <1>1, <1>2, <1>3, <1>5, <2>4, <2>7, <3>1, <4>1 DEF Letters, Spoilt
            <4>2. CASE x # c
                BY <1>1, <1>3, <2>6, <3>1, <4>2 DEF Letters, Spoilt
            <4> QED
                BY <4>1, <4>2
        <3>2. spoilt \subseteq spoilt'
            BY <1>3
        <3> QED
            BY <1>1, <1>3, <1>6, <2>1, <3>1, <3>2 DEF Letters, Spoilt
    <2>15. Resets'
        BY <1>1, <1>2, <1>3, <1>5, <1>6, <2>6, <2>7 DEF Resets, Hung
    <2> QED
        BY <2>9, <2>10, <2>11, <2>12, <2>13, <2>14, <2>15 DEF EchoInv
<1> QED
    BY <1>8, <1>9

(* The select server reads a character and answers at once.                *)
LEMMA SelectKeeps ==
    ASSUME EchoInv, NEW f \in Fds, Echo!Scan(f), server = "select",
           inbox[client[f]] # None,
           ch' = inbox[client[f]] + 1,
           inbox' = [inbox EXCEPT ![client[f]] = None],
           Echo!Send(client[f], inbox[client[f]] + 1),
           UNCHANGED <<server, client, events, link, mixed, spoilt,
                       pc, left, letter, wrong, reset>>
    PROVE  EchoInv'
<1> DEFINE c == client[f]
<1>1. EchoTypes /\ Slots /\ Reports /\ Dialogue /\ Places /\ Letters /\ Resets /\ Death
    BY DEF EchoInv
<1>2. /\ alive /\ ready' = ready \ {f}
      /\ c \in EchoClients /\ link[c] = "open"
      /\ pc[c] \in {"write", "read", "ended", "killed"}
      /\ \A g \in Fds : client[g] = c => g = f
    BY Handling
<1>3. \A g \in Fds : client[g] # None => events[g] = "in"
    BY <1>1, <1>2 DEF Places, EchoTypes
<1>4. error[c] # "broken" /\ outbox[c] = None /\ inbox[c] \in Int /\ pc[c] # "write"
    BY <1>1, <1>2 DEF Resets, Dialogue, Clean, EchoTypes
<1>5. ~Hung(c) => pc[c] = "read" /\ inbox[c] = letter[c]
    BY <1>1, <1>2, <1>4 DEF Hung, Letters
<1>6. /\ error' = [error EXCEPT ![c] = IF Hung(c) THEN "broken" ELSE @]
      /\ outbox' = [outbox EXCEPT ![c] = IF Hung(c) THEN @ ELSE inbox[c] + 1]
      /\ alive' = alive
    BY <1>4 DEF Echo!Send, Echo!Hung, Hung
<1>7. inbox[c] + 1 \in Int /\ inbox[c] + 1 # None
    BY <1>4, EchoAssumption
<1>8. \A x \in EchoClients \ {c} :
        error'[x] = error[x] /\ outbox'[x] = outbox[x] /\ inbox'[x] = inbox[x]
    BY <1>1, <1>6 DEF EchoTypes
<1>9. /\ inbox'[c] = None
      /\ Hung(c) => error'[c] = "broken" /\ outbox'[c] = None
      /\ ~Hung(c) => error'[c] = error[c] /\ outbox'[c] = inbox[c] + 1
    BY <1>1, <1>2, <1>4, <1>6 DEF EchoTypes
<1>10. EchoTypes'
    <2>1. error' \in [EchoClients -> {"none", "pending", "broken"}]
        BY <1>1, <1>6 DEF EchoTypes
    <2>2. outbox' \in [EchoClients -> Int \cup {None}]
        BY <1>1, <1>6, <1>7 DEF EchoTypes
    <2>3. inbox' \in [EchoClients -> Int \cup {None}]
        BY <1>1 DEF EchoTypes
    <2> QED
        BY <1>1, <1>6, <1>7, <2>1, <2>2, <2>3 DEF EchoTypes
<1>11. Slots' /\ Death'
    BY <1>1, <1>2, <1>6 DEF Slots, Death
<1>12. \A g \in Fds \ {f} : client[g] # c
    BY <1>2
<1>13. client[f] = c
    OBVIOUS
<1> HIDE DEF c
<1>14. Reports'
    <2>1. ASSUME NEW g \in Fds \cap ready, g # f
          PROVE  inbox'[client[g]] = inbox[client[g]] /\ client[g] # None
        BY <1>1, <1>8, <1>12, <2>1 DEF Reports, EchoTypes
    <2> QED
        BY <1>1, <1>2, <2>1 DEF Reports, Hung
<1>15. Dialogue'
    BY <1>1, <1>2, <1>5, <1>8, <1>9 DEF Dialogue, Clean, Hung
<1>16. Places'
    <2>1. ASSUME NEW g \in Fds, client[g] # None, g # f
          PROVE  /\ outbox'[client[g]] = outbox[client[g]]
                 /\ inbox'[client[g]] = inbox[client[g]]
        BY <1>1, <1>8, <1>12, <2>1 DEF EchoTypes
    <2>2. pc[c] = "read" => outbox'[c] # None
        BY <1>7, <1>9 DEF Hung
    <2> QED
        BY <1>1, <1>2, <1>3, <1>4, <1>6, <1>9, <1>13, <2>1, <2>2 DEF Places
<1>17. Letters'
    <2>1. ASSUME NEW x \in EchoClients
          PROVE  /\ pc[x] = "read" /\ inbox'[x] # None => inbox'[x] = letter[x]
                 /\ outbox'[x] # None => outbox'[x] = letter[x] + 1
        <3>1. CASE x = c
            BY <1>5, <1>9, <3>1
        <3>2. CASE x # c
            BY <1>1, <1>8, <3>2 DEF Letters, Spoilt
        <3> QED
            BY <3>1, <3>2
    <2> QED
        BY <1>1, <1>3, <1>6, <2>1 DEF Letters, Spoilt
<1>18. Resets'
    BY <1>1, <1>2, <1>3, <1>8, <1>9, <1>12, <1>13, EchoAssumption DEF Resets, Hung
<1> QED
    BY <1>10, <1>11, <1>14, <1>15, <1>16, <1>17, <1>18 DEF EchoInv

LEMMA HandleKeeps ==
    ASSUME EchoInv, NEW f \in Fds, Echo!Handle(f)
    PROVE  EchoInv'
<1>1. /\ Echo!Scan(f) /\ UNCHANGED <<server, pc, left, letter, wrong, reset>>
      /\ server = "poll" => Echo!ServePoll(f)
      /\ server # "poll" => Echo!ServeSelect(f)
    <2>1. /\ Echo!Scan(f)
          /\ IF server = "poll" THEN Echo!ServePoll(f) ELSE Echo!ServeSelect(f)
          /\ UNCHANGED <<server, Echo!clientVars>>
        BY Zenon DEF Echo!Handle
    <2>2. UNCHANGED <<server, pc, left, letter, wrong, reset>>
        BY <2>1 DEF Echo!clientVars
    <2> QED
        BY <2>1, <2>2
<1>2. client[f] \in EchoClients /\ client[f] # None /\ alive
    BY <1>1, Handling, EchoAssumption
<1>3. server \in {"poll", "select"} /\ events[f] \in {"in", "out"}
    BY DEF EchoInv, EchoTypes
<1>4. server = "select" => events[f] = "in"
    BY <1>2, <1>3 DEF EchoInv, Places
<1>5. CASE server = "poll"
    <2>1. CASE events[f] = "in" /\ Echo!Serve(f)
        BY <1>1, <1>5, <2>1, ServeKeeps
    <2>2. CASE events[f] = "in" /\ inbox[client[f]] = None /\ Echo!Close(f)
        BY <1>1, <2>2, CloseKeeps
    <2>3. CASE events[f] = "out" /\ Echo!Reply(f)
        BY <1>1, <2>3, ReplyKeeps
    <2> QED
        BY <1>1, <1>5, <2>1, <2>2, <2>3 DEF Echo!ServePoll
<1>6. CASE server = "select"
    <2>1. CASE inbox[client[f]] = None /\ Echo!Close(f)
        BY <1>1, <1>4, <1>6, <2>1, CloseKeeps
    <2>2. CASE inbox[client[f]] # None
        <3>1. /\ ch' = inbox[client[f]] + 1
              /\ inbox' = [inbox EXCEPT ![client[f]] = None]
              /\ Echo!Send(client[f], inbox[client[f]] + 1)
              /\ UNCHANGED <<client, events, link, mixed, spoilt>>
            BY <1>1, <1>6, <2>2 DEF Echo!ServeSelect, Echo!slotVars, Echo!history
        <3> QED
            BY <1>1, <1>6, <2>2, <3>1, SelectKeeps
    <2> QED
        BY <1>1, <1>6, <2>1, <2>2 DEF Echo!ServeSelect
<1> QED
    BY <1>3, <1>5, <1>6

LEMMA EchoStep == EchoInv /\ Echo!Next => EchoInv'
<1> SUFFICES ASSUME EchoInv, Echo!Next PROVE EchoInv'
    OBVIOUS
<1>1. CASE Echo!Await
    BY <1>1, AwaitKeeps
<1>2. CASE Echo!Accept
    BY <1>2, AcceptKeeps
<1>3. CASE \E f \in Echo!Fds : Echo!Handle(f)
    BY <1>3, FdsAre, HandleKeeps
<1>4. CASE \E c \in EchoClients : Echo!Client(c)
    BY <1>4, WriteKeeps, ReadKeeps, FindServerGoneKeeps DEF Echo!Client
<1>5. CASE \E c \in EchoClients : Echo!Connect(c)
    BY <1>5, ConnectKeeps
<1>6. CASE \E c \in EchoClients : Echo!Kill(c)
    BY <1>6, KillKeeps
<1> QED
    BY <1>1, <1>2, <1>3, <1>4, <1>5, <1>6 DEF Echo!Next, Echo!Server

-------------------------------------------------------------------------------
(* The invariant of the web server                                         *)

Kinds == {"get", "commit", "head", "form", "part", "rest"}
Segments == [kind : Kinds, name : Nat, shape : Web!Shapes]
WebPages == [page : {"welcome", "commit"}, name : Int]

(* The shapes that a sequence of requests has, and segments of such shapes. *)
ShapesIn(s) == {s[i].shape : i \in 1..Len(s)}
Shaped(T) == {x \in Segments : x.shape \in T}
Plain(c) == ShapesIn(asked[c]) \subseteq {"fits"}

(* The last name given in a sequence of requests, and the page that fits   *)
(* the last of them.                                                       *)
Named(s) == {i \in 1..Len(s) : s[i].name # 0}
NameIn(s) == IF Named(s) = {} THEN 0 ELSE s[Web!Max(Named(s))].name
PageFor(s) ==
    IF s[Len(s)].kind = "get" THEN Web!Page("welcome", 0) ELSE Web!Page("commit", NameIn(s))

WebTypes ==
    /\ split \subseteq WebClients
    /\ link \in [WebClients -> {"new", "backlog", "open", "closed"}]
    /\ watched \in [WebClients -> {"in", "out"}]
    /\ handler \in [WebClients -> {"none", "welcome", "commit"}]
    /\ name \in [WebClients -> Int]
    /\ error \in [WebClients -> {"none", "pending", "broken"}]
    /\ inbox \in [WebClients -> Seq(Segments)]
    /\ outbox \in [WebClients -> Seq(WebPages)]
    /\ pc \in [WebClients -> {"out", "idle", "wait", "left"}]
    /\ asked \in [WebClients -> Seq(Segments)]

(* What has not been read has the shapes that the client has sent.         *)
Arrivals ==
    \A c \in WebClients : inbox[c] \in Seq(Shaped(ShapesIn(asked[c]) \cup {"fits"}))

(* What epoll_wait has reported and the loop has still to handle is so.    *)
WebReports ==
    \A e \in revs :
        e = <<Listener, "in">> \/ \E c \in WebClients : e = <<c, watched[c]>> /\ link[c] = "open"

(* A connection is watched for writing when its handler is set.            *)
Watching ==
    \A c \in WebClients :
        /\ watched[c] = "out" => link[c] = "open" /\ handler[c] # "none"
        /\ pc[c] = "out" => link[c] = "new"

(* Where the request of a client stands, none of whose requests was cut:   *)
(* under way, read, answered, or there is none.                            *)
Asking(c) ==
    /\ Len(inbox[c]) = 1 /\ inbox[c][1].kind \in {"get", "commit"}
    /\ inbox[c][1].kind = "get" => inbox[c][1].name = 0
    /\ outbox[c] = <<>> /\ watched[c] = "in"
Answering(c) == inbox[c] = <<>> /\ outbox[c] = <<>> /\ watched[c] = "out"
Answered(c) == inbox[c] = <<>> /\ Len(outbox[c]) = 1 /\ watched[c] = "in"
Quiet(c) == inbox[c] = <<>> /\ outbox[c] = <<>> /\ watched[c] = "in"

Stands(c) ==
    /\ pc[c] \in {"out", "idle"} => Quiet(c)
    /\ pc[c] = "wait" => Asking(c) \/ Answering(c) \/ Answered(c)
    /\ pc[c] = "left" => Asking(c) \/ Answering(c) \/ Quiet(c)
    /\ error[c] # "none" => pc[c] = "left" /\ Quiet(c)

(* The name that the server has, or will have when it has read.            *)
Latest(c) == IF Asking(c) /\ inbox[c][1].name # 0 THEN inbox[c][1].name ELSE name[c]

Fits(c) ==
    /\ pc[c] # "left" => Latest(c) = NameIn(asked[c])
    /\ pc[c] = "wait" =>
          /\ asked[c] # <<>>
          /\ Asking(c) => inbox[c][1] = asked[c][Len(asked[c])]
          /\ Answering(c) =>
                handler[c] = IF asked[c][Len(asked[c])].kind = "get" THEN "welcome" ELSE "commit"
          /\ Answered(c) => outbox[c][1] = PageFor(asked[c])

WebDialogue == \A c \in WebClients \ split : Stands(c) /\ (Plain(c) => Fits(c))

WebEnds ==
    /\ server = "SIGSEGV" => ~returned \/ split # {}
    /\ server = "SIGPIPE" => split # {}
    /\ server = "overrun" => \E c \in WebClients : "huge" \in ShapesIn(asked[c])
    /\ \A c \in misfit : c \in split \/ ~Plain(c)

(* When a form has overwritten data.ptr, nothing more is known of the      *)
(* request that was being read.                                            *)
WebInv ==
    /\ WebTypes /\ Arrivals /\ WebReports /\ Watching /\ WebEnds
    /\ server = "overrun" \/ WebDialogue

-------------------------------------------------------------------------------
(* Its sequences                                                           *)

LEMMA MaxIs ==
    ASSUME NEW n \in Nat, NEW S \in SUBSET (1..n), S # {}
    PROVE  Web!Max(S) \in S /\ \A y \in S : y <= Web!Max(S)
<1> DEFINE T == {n - y : y \in S}
<1>1. T \in SUBSET Nat /\ T # {}
    <2>1. ASSUME NEW y \in S PROVE n - y \in Nat
        <3>1. y \in 1..n
            OBVIOUS
        <3> QED
            BY <3>1
    <2>2. T \subseteq Nat
        BY <2>1
    <2> QED
        BY <2>2
<1>2. Echo!Min(T) \in T /\ \A z \in T : Echo!Min(T) <= z
    BY <1>1, MinIs
<1>3. PICK x \in S : \A y \in S : n - x <= n - y
    BY <1>2
<1>4. \A y \in S : x >= y
    BY <1>3
<1>5. \A y \in S : Web!Max(S) >= y /\ Web!Max(S) \in S
    BY <1>4 DEF Web!Max
<1> QED
    BY <1>4, <1>5

LEMMA NextName ==
    ASSUME NEW s \in Seq(Segments), NEW x \in Segments
    PROVE  NameIn(Append(s, x)) = IF x.name # 0 THEN x.name ELSE NameIn(s)
<1> DEFINE n == Len(s)
           t == Append(s, x)
<1>1. /\ n \in Nat /\ Len(t) = n + 1 /\ t[n + 1] = x
      /\ \A i \in 1..n : t[i] = s[i]
    BY AppendProperties, LenProperties
<1> HIDE DEF n, t
<1>2. CASE x.name # 0
    <2>1. n + 1 \in Named(t) /\ Named(t) \in SUBSET (1..(n + 1))
        BY <1>1, <1>2 DEF Named
    <2>2. Web!Max(Named(t)) \in Named(t) /\ n + 1 <= Web!Max(Named(t))
        BY <1>1, <2>1, MaxIs
    <2>3. Web!Max(Named(t)) = n + 1
        BY <1>1, <2>1, <2>2
    <2> QED
        BY <1>1, <1>2, <2>1, <2>3 DEF NameIn, t
<1>3. CASE x.name = 0
    <2>1. Named(t) = Named(s)
        BY <1>1, <1>3 DEF Named, n
    <2>2. Named(s) # {} => Web!Max(Named(s)) \in 1..n
        <3>1. Named(s) \in SUBSET (1..n)
            BY DEF Named, n
        <3> QED
            BY <1>1, <3>1, MaxIs
    <2> QED
        BY <1>1, <1>3, <2>1, <2>2 DEF NameIn, t
<1> QED
    BY <1>2, <1>3 DEF Segments

LEMMA NamesAre ==
    ASSUME NEW c
    PROVE  /\ Web!LastName(c) = NameIn(asked[c])
           /\ Web!Fitting(c) = PageFor(asked[c])
<1>1. Web!LastName(c) = NameIn(asked[c])
    BY DEF Web!LastName, NameIn, Named, Web!Blank
<1> QED
    BY <1>1 DEF Web!Fitting, PageFor, Web!Last, Web!Blank

LEMMA OneOf ==
    ASSUME NEW S, NEW s \in Seq(S), Len(s) = 1
    PROVE  /\ s # <<>> /\ Head(s) = s[1] /\ Tail(s) = <<>>
           /\ SubSeq(s, 1, 1) = s /\ SubSeq(s, 2, 1) = <<>> /\ s[1] \in S
<1>1. s # <<>>
    BY EmptySeq
<1>2. SubSeq(s, 1, 1) = s
    BY SubSeqFull
<1>3. SubSeq(s, 2, 1) = <<>>
    BY SubSeqEmpty
<1>4. Tail(s) = <<>>
    BY <1>1, <1>3, TailIsSubSeq
<1>5. s[1] \in S
    BY ElementOfSeq
<1>6. Head(s) = s[1]
    BY <1>1
<1> QED
    BY <1>1, <1>2, <1>3, <1>4, <1>5, <1>6

LEMMA Single ==
    ASSUME NEW S, NEW x \in S
    PROVE  /\ <<x>> \in Seq(S) /\ Len(<<x>>) = 1 /\ <<x>>[1] = x
           /\ Append(<<>>, x) = <<x>> /\ <<>> \o <<x>> = <<x>>
<1>1. <<x>> \in Seq(S) /\ Len(<<x>>) = 1 /\ <<x>>[1] = x
    BY SeqDef
<1>2. <<>> \in Seq(S)
    BY EmptySeq
<1>3. <<>> \o <<x>> = <<x>>
    BY <1>1, ConcatEmptySeq
<1>4. Append(<<>>, x) = <<x>>
    <2>1. /\ Append(<<>>, x) \in Seq(S) /\ Len(Append(<<>>, x)) = 1
          /\ Append(<<>>, x)[1] = x
        BY <1>2, AppendProperties, EmptySeq
    <2> QED
        BY <1>1, <2>1, SeqEqual
<1> QED
    BY <1>1, <1>3, <1>4

LEMMA NextShapes ==
    ASSUME NEW s \in Seq(Segments), NEW x \in Segments
    PROVE  ShapesIn(Append(s, x)) = ShapesIn(s) \cup {x.shape}
<1> DEFINE n == Len(s)
           t == Append(s, x)
<1>1. /\ n \in Nat /\ Len(t) = n + 1 /\ t[n + 1] = x
      /\ \A i \in 1..n : t[i] = s[i]
    BY AppendProperties, LenProperties
<1> HIDE DEF n, t
<1>2. 1..(n + 1) = (1..n) \cup {n + 1}
    BY <1>1
<1>3. ShapesIn(t) = {t[i].shape : i \in (1..n) \cup {n + 1}}
    BY <1>1, <1>2 DEF ShapesIn
<1>4. ShapesIn(s) = {t[i].shape : i \in 1..n}
    BY <1>1 DEF ShapesIn, n
<1> QED
    BY <1>1, <1>3, <1>4 DEF t

LEMMA WiderSeq ==
    ASSUME NEW A, NEW B, A \subseteq B, NEW s \in Seq(A)
    PROVE  s \in Seq(B)
BY SeqDef

(* The two parts of what is read in part                                   *)
LEMMA PartsOf ==
    ASSUME NEW S, NEW s \in Seq(S), NEW k \in 1..Len(s)
    PROVE  SubSeq(s, 1, k) \in Seq(S) /\ SubSeq(s, k + 1, Len(s)) \in Seq(S)
<1>1. Len(s) \in Nat /\ \A i \in 1..Len(s) : s[i] \in S
    BY LenProperties, ElementOfSeq
<1>2. /\ \A i \in 1..k : s[i] \in S
      /\ \A i \in (k + 1)..Len(s) : s[i] \in S
    BY <1>1
<1>3. k \in Int /\ k + 1 \in Int /\ Len(s) \in Int
    BY <1>1
<1>4. SubSeq(s, 1, k) \in Seq(S)
    BY <1>2, <1>3, SubSeqProperties
<1>5. SubSeq(s, k + 1, Len(s)) \in Seq(S)
    BY <1>2, <1>3, SubSeqProperties
<1> QED
    BY <1>4, <1>5

LEMMA WholeRequest ==
    ASSUME NEW x \in Segments, NEW r, r = <<x>>
    PROVE  /\ r \in Seq(Shaped({x.shape, "fits"})) /\ Len(r) = 1
           /\ Web!Last(r) = x /\ r = <<Web!Last(r)>>
<1> DEFINE S == Shaped({x.shape, "fits"})
<1>1. x \in S
    BY DEF Shaped
<1> HIDE DEF S
<1>2. <<x>> \in Seq(S) /\ Len(<<x>>) = 1 /\ <<x>>[1] = x
    BY <1>1, Single
<1>3. r \in Seq(S) /\ Len(r) = 1 /\ r[1] = x
    BY <1>2
<1>4. Web!Last(r) = x
    BY <1>3 DEF Web!Last
<1>5. r = <<Web!Last(r)>>
    BY <1>4
<1> QED
    BY <1>3, <1>4, <1>5 DEF S

(* The requests that a browser can make                                    *)
LEMMA RequestIs ==
    ASSUME NEW c \in WebClients, asked[c] \in Seq(Segments), NEW r \in Web!Requests(c)
    PROVE  /\ Web!Last(r) \in Segments
           /\ r \in Seq(Shaped({Web!Last(r).shape, "fits"}))
           /\ \/ Len(r) > 1
              \/ /\ Len(r) = 1 /\ r = <<Web!Last(r)>>
                 /\ Web!Last(r).kind \in {"get", "commit"}
                 /\ Web!Last(r).kind = "get" => Web!Last(r).name = 0
<1>1. Len(asked[c]) + 1 \in Nat /\ 0 \in Nat
    BY LenProperties
<1>2. \A k \in Kinds : \A n \in Nat : \A h \in Web!Shapes :
         /\ Web!Segment(k, n, h) \in Segments
         /\ Web!Segment(k, n, h).kind = k /\ Web!Segment(k, n, h).shape = h
    BY DEF Segments, Web!Segment
<1>3. CASE \E x \in Segments : /\ r = <<x>> /\ x.kind \in {"get", "commit"}
                               /\ x.kind = "get" => x.name = 0
    <2>1. PICK x \in Segments : /\ r = <<x>> /\ x.kind \in {"get", "commit"}
                                /\ x.kind = "get" => x.name = 0
        BY <1>3
    <2>2. /\ r \in Seq(Shaped({x.shape, "fits"})) /\ Len(r) = 1
          /\ Web!Last(r) = x /\ r = <<Web!Last(r)>>
        BY <2>1, WholeRequest
    <2> QED
        BY <2>1, <2>2
<1>4. CASE \E x, y \in Segments : r = <<x, y>> /\ x.shape = "fits"
    <2>1. PICK x \in Segments, y \in Segments : r = <<x, y>> /\ x.shape = "fits"
        BY <1>4
    <2>2. x \in Shaped({y.shape, "fits"}) /\ y \in Shaped({y.shape, "fits"})
        BY <2>1 DEF Shaped
    <2>3. r \in Seq(Shaped({y.shape, "fits"})) /\ Len(r) = 2 /\ r[2] = y
        BY <2>1, <2>2, SeqDef
    <2> QED
        BY <2>3 DEF Web!Last
<1>5. CASE r = <<Web!Segment("get", 0, "fits")>>
    <2>1. /\ Web!Segment("get", 0, "fits") \in Segments
          /\ Web!Segment("get", 0, "fits").kind = "get"
          /\ Web!Segment("get", 0, "fits").name = 0
        BY <1>1, <1>2 DEF Kinds, Web!Shapes, Web!Segment
    <2> QED
        BY <1>3, <1>5, <2>1
<1>6. ASSUME NEW n \in Nat, NEW h \in Web!Shapes, r = <<Web!Segment("commit", n, h)>>
      PROVE  \E x \in Segments : r = <<x>> /\ x.kind = "commit"
    BY <1>2, <1>6 DEF Kinds
<1>7. ASSUME NEW n \in Nat, NEW h \in Web!Shapes, r \in Web!Cuts(n, h)
      PROVE  \/ \E x \in Segments : r = <<x>> /\ x.kind = "commit"
             \/ \E x, y \in Segments : r = <<x, y>> /\ x.shape = "fits"
    <2>1. CASE r = <<Web!Segment("commit", n, h)>>
        BY <1>6, <2>1
    <2>2. CASE \E k, l \in Kinds : r = <<Web!Segment(k, 0, "fits"), Web!Segment(l, n, h)>>
        BY <1>1, <1>2, <2>2 DEF Web!Shapes
    <2> QED
        BY <1>7, <2>1, <2>2 DEF Web!Cuts, Kinds, Web!Blank
<1>8. \/ r = <<Web!Segment("get", 0, "fits")>>
      \/ \E n \in Nat, h \in Web!Shapes :
            r \in Web!Cuts(n, h) \/ r = <<Web!Segment("commit", n, h)>>
    BY <1>1 DEF Web!Requests, Web!Blank, Web!Shapes
<1> QED
    BY <1>3, <1>4, <1>5, <1>6, <1>7, <1>8

(* A client that a step leaves alone                                       *)
LEMMA AloneStands ==
    ASSUME NEW d, Stands(d), Plain(d) => Fits(d),
           pc'[d] = pc[d], inbox'[d] = inbox[d], outbox'[d] = outbox[d],
           watched'[d] = watched[d], error'[d] = error[d], handler'[d] = handler[d],
           name'[d] = name[d], asked'[d] = asked[d]
    PROVE  Stands(d)' /\ (Plain(d)' => Fits(d)')
<1>1. /\ Asking(d)' = Asking(d) /\ Answering(d)' = Answering(d)
      /\ Answered(d)' = Answered(d) /\ Quiet(d)' = Quiet(d)
    BY DEF Asking, Answering, Answered, Quiet
<1>2. Latest(d)' = Latest(d)
    BY <1>1 DEF Latest
<1>3. NameIn(asked[d])' = NameIn(asked[d]) /\ PageFor(asked[d])' = PageFor(asked[d])
    BY DEF NameIn, Named, PageFor
<1>4. Plain(d)' = Plain(d)
    BY DEF Plain, ShapesIn
<1> QED
    BY <1>1, <1>2, <1>3, <1>4 DEF Stands, Fits

(* What has been asked for stays, and with it what depends on nothing else *)
LEMMA ShapesStay ==
    ASSUME NEW d, asked'[d] = asked[d]
    PROVE  ShapesIn(asked[d])' = ShapesIn(asked[d]) /\ Plain(d)' = Plain(d)
BY DEF Plain, ShapesIn

LEMMA ArrivalsStay ==
    ASSUME Arrivals, UNCHANGED <<inbox, asked>>
    PROVE  Arrivals'
<1> SUFFICES ASSUME NEW d \in WebClients
             PROVE  inbox'[d] \in Seq(Shaped(ShapesIn(asked[d])' \cup {"fits"}))
    BY DEF Arrivals, Shaped
<1>1. ShapesIn(asked[d])' = ShapesIn(asked[d])
    BY ShapesStay
<1> QED
    BY <1>1 DEF Arrivals

(* A part of what has arrived has been read.                               *)
LEMMA ArrivalsRead ==
    ASSUME Arrivals, UNCHANGED asked, NEW c \in WebClients, NEW rest,
           rest \in Seq(Shaped(ShapesIn(asked[c]) \cup {"fits"})),
           \A d \in WebClients : inbox'[d] = IF d = c THEN rest ELSE inbox[d]
    PROVE  Arrivals'
<1> SUFFICES ASSUME NEW d \in WebClients
             PROVE  inbox'[d] \in Seq(Shaped(ShapesIn(asked[d])' \cup {"fits"}))
    BY DEF Arrivals, Shaped
<1>1. ShapesIn(asked[d])' = ShapesIn(asked[d])
    BY ShapesStay
<1> QED
    BY <1>1 DEF Arrivals

LEMMA EndsStay ==
    ASSUME WebEnds, UNCHANGED <<server, returned, asked, split, misfit>>
    PROVE  WebEnds'
<1>1. \A d : Plain(d)' = Plain(d) /\ ShapesIn(asked[d])' = ShapesIn(asked[d])
    BY ShapesStay
<1> QED
    BY <1>1 DEF WebEnds

-------------------------------------------------------------------------------
(* The browsers                                                            *)

LEMMA WebInit == Web!Init => WebInv
<1> SUFFICES ASSUME Web!Init PROVE WebInv
    OBVIOUS
<1>1. <<>> \in Seq(Segments) /\ <<>> \in Seq(WebPages) /\ Len(<<>>) = 0
    BY EmptySeq
<1>2. WebTypes
    BY <1>1 DEF Web!Init, WebTypes, Web!Blank
<1>3. Arrivals
    BY EmptySeq DEF Web!Init, Arrivals
<1>4. WebReports /\ Watching /\ WebEnds
    BY DEF Web!Init, WebReports, Watching, WebEnds
<1>5. WebDialogue
    <2> SUFFICES ASSUME NEW c \in WebClients PROVE Stands(c) /\ Fits(c)
        BY DEF WebDialogue
    <2>1. /\ pc[c] = "out" /\ inbox[c] = <<>> /\ outbox[c] = <<>> /\ watched[c] = "in"
          /\ error[c] = "none" /\ name[c] = 0 /\ asked[c] = <<>>
        BY DEF Web!Init, Web!Blank
    <2>2. NameIn(asked[c]) = 0
        <3>1. Named(<<>>) = {}
            BY <1>1 DEF Named
        <3> QED
            BY <2>1, <3>1 DEF NameIn
    <2> QED
        BY <1>1, <2>1, <2>2 DEF Stands, Fits, Quiet, Latest, Asking
<1> QED
    BY <1>2, <1>3, <1>4, <1>5 DEF WebInv

LEMMA WebConnectKeeps ==
    ASSUME WebInv, NEW c \in WebClients, Web!Connect(c)
    PROVE  WebInv'
<1>1. /\ pc[c] = "out"
      /\ pc' = [pc EXCEPT ![c] = "idle"]
      /\ link' = [link EXCEPT ![c] = "backlog"]
      /\ UNCHANGED <<returned, server, revs, watched, handler, name, error, inbox,
                     outbox, asked, split, misfit>>
    BY DEF Web!Connect
<1>2. WebTypes /\ Arrivals /\ WebReports /\ Watching /\ WebDialogue /\ WebEnds
    BY DEF WebInv, Web!Running, Web!Connect
<1>3. link[c] = "new"
    BY <1>1, <1>2 DEF Watching
<1>4. WebTypes' /\ Arrivals'
    BY <1>1, <1>2, ArrivalsStay DEF WebTypes
<1>5. WebReports'
    <2> SUFFICES ASSUME NEW e \in revs, e # <<Listener, "in">>
                 PROVE  \E d \in WebClients : e = <<d, watched[d]>> /\ link'[d] = "open"
        BY <1>1 DEF WebReports
    <2>1. PICK d \in WebClients : e = <<d, watched[d]>> /\ link[d] = "open"
        BY <1>2 DEF WebReports
    <2>2. link'[d] = "open"
        BY <1>1, <1>2, <1>3, <2>1 DEF WebTypes
    <2> QED
        BY <2>1, <2>2
<1>6. Watching'
    BY <1>1, <1>2, <1>3 DEF Watching, WebTypes
<1>7. WebDialogue'
    <2> SUFFICES ASSUME NEW d \in WebClients \ split PROVE Stands(d)' /\ (Plain(d)' => Fits(d)')
        BY <1>1 DEF WebDialogue
    <2>1. Stands(d) /\ (Plain(d) => Fits(d))
        BY <1>2 DEF WebDialogue
    <2>2. CASE d # c
        <3>1. pc'[d] = pc[d]
            BY <1>1, <1>2, <2>2 DEF WebTypes
        <3> QED
            BY <1>1, <2>1, <3>1, AloneStands
    <2>3. CASE d = c
        <3>1. /\ Quiet(d) /\ error[d] = "none"
              /\ Plain(d) => Latest(d) = NameIn(asked[d])
            BY <1>1, <2>1, <2>3 DEF Stands, Fits
        <3>2. pc'[d] = "idle"
            BY <1>1, <1>2, <2>3 DEF WebTypes
        <3>3. /\ Quiet(d)' /\ error'[d] = "none"
              /\ Plain(d)' => Latest(d)' = NameIn(asked'[d])
            BY <1>1, <3>1 DEF Quiet, Latest, Asking, NameIn, Named, Plain, ShapesIn
        <3> QED
            BY <3>2, <3>3 DEF Stands, Fits
    <2> QED
        BY <2>2, <2>3
<1>8. WebEnds'
    BY <1>1, <1>2, EndsStay
<1> QED
    BY <1>4, <1>5, <1>6, <1>7, <1>8 DEF WebInv

LEMMA AskKeeps ==
    ASSUME WebInv, NEW c \in WebClients, NEW r \in Web!Requests(c), Web!Ask(c, r)
    PROVE  WebInv'
<1> DEFINE x == Web!Last(r)
<1>1. /\ pc[c] = "idle"
      /\ pc' = [pc EXCEPT ![c] = "wait"]
      /\ asked' = [asked EXCEPT ![c] = Append(asked[c], x)]
      /\ inbox' = [inbox EXCEPT ![c] = inbox[c] \o r]
      /\ split' = IF Len(r) > 1 THEN split \cup {c} ELSE split
      /\ server = "runs"
      /\ UNCHANGED <<returned, server, revs, link, watched, handler, name, error,
                     outbox, misfit>>
    BY DEF Web!Ask, Web!statVars, Web!Running
<1>2. WebTypes /\ Arrivals /\ WebReports /\ Watching /\ WebDialogue /\ WebEnds
    BY DEF WebInv, Web!Running, Web!Ask
<1>3. asked[c] \in Seq(Segments) /\ inbox[c] \in Seq(Segments)
    BY <1>2 DEF WebTypes
<1>4. /\ r \in Seq(Shaped({x.shape, "fits"})) /\ x \in Segments
      /\ \/ Len(r) > 1
         \/ /\ Len(r) = 1 /\ r = <<x>>
            /\ x.kind \in {"get", "commit"} /\ (x.kind = "get" => x.name = 0)
    BY <1>3, RequestIs
<1> HIDE DEF x
<1>5. /\ Append(asked[c], x) \in Seq(Segments)
      /\ ShapesIn(asked'[c]) = ShapesIn(asked[c]) \cup {x.shape}
      /\ inbox[c] \o r \in Seq(Shaped(ShapesIn(asked'[c]) \cup {"fits"}))
      /\ inbox[c] \o r \in Seq(Segments)
    <2> DEFINE T == ShapesIn(asked'[c]) \cup {"fits"}
    <2>1. asked'[c] = Append(asked[c], x)
        BY <1>1, <1>2 DEF WebTypes
    <2>2. Append(asked[c], x) \in Seq(Segments)
        BY <1>3, <1>4, AppendProperties
    <2>3. ShapesIn(asked'[c]) = ShapesIn(asked[c]) \cup {x.shape}
        BY <1>3, <1>4, <2>1, NextShapes
    <2>4. inbox[c] \in Seq(Shaped(ShapesIn(asked[c]) \cup {"fits"}))
        BY <1>2 DEF Arrivals
    <2>5. /\ Shaped(ShapesIn(asked[c]) \cup {"fits"}) \subseteq Shaped(T)
          /\ Shaped({x.shape, "fits"}) \subseteq Shaped(T)
          /\ Shaped(T) \subseteq Segments
        BY <2>3 DEF Shaped
    <2> HIDE DEF T
    <2>6. inbox[c] \in Seq(Shaped(T)) /\ r \in Seq(Shaped(T))
        BY <1>4, <2>4, <2>5, WiderSeq
    <2>7. inbox[c] \o r \in Seq(Shaped(T))
        BY <2>6, ConcatProperties
    <2>8. inbox[c] \o r \in Seq(Segments)
        BY <2>5, <2>7, WiderSeq
    <2> QED
        BY <2>2, <2>3, <2>7, <2>8 DEF T
<1>6. WebTypes' /\ Arrivals'
    <2>1. WebTypes'
        BY <1>1, <1>2, <1>5 DEF WebTypes
    <2>2. ASSUME NEW d \in WebClients
          PROVE  inbox'[d] \in Seq(Shaped(ShapesIn(asked'[d]) \cup {"fits"}))
        <3>1. CASE d = c
            BY <1>1, <1>2, <1>5, <3>1 DEF WebTypes
        <3>2. CASE d # c
            <4>1. inbox'[d] = inbox[d] /\ asked'[d] = asked[d]
                BY <1>1, <1>2, <3>2 DEF WebTypes
            <4> QED
                BY <1>2, <4>1 DEF Arrivals
        <3> QED
            BY <3>1, <3>2
    <2>3. Arrivals'
        BY <2>2 DEF Arrivals, ShapesIn
    <2> QED
        BY <2>1, <2>3
<1>7. WebReports' /\ WebEnds'
    <2>1. WebReports'
        BY <1>1, <1>2 DEF WebReports
    <2>2. ASSUME NEW d \in misfit PROVE d \in split' \/ ~Plain(d)'
        <3>1. d \in split \/ ~Plain(d)
            BY <1>2 DEF WebEnds
        <3>2. CASE d = c
            <4>1. Plain(d)' = (ShapesIn(asked'[d]) \subseteq {"fits"})
                BY DEF Plain, ShapesIn
            <4>2. Plain(d)' => Plain(d)
                BY <1>5, <3>2, <4>1 DEF Plain
            <4> QED
                BY <1>1, <3>1, <4>2
        <3>3. CASE d # c
            <4>1. asked'[d] = asked[d]
                BY <1>1, <3>3
            <4> QED
                BY <1>1, <3>1, <4>1 DEF Plain, ShapesIn
        <3> QED
            BY <3>2, <3>3
    <2>3. WebEnds'
        BY <1>1, <2>2 DEF WebEnds
    <2> QED
        BY <2>1, <2>3
<1>8. Watching'
    BY <1>1, <1>2 DEF Watching, WebTypes
<1>9. WebDialogue'
    <2> SUFFICES ASSUME NEW d \in WebClients, d \notin split' PROVE Stands(d)' /\ (Plain(d)' => Fits(d)')
        BY DEF WebDialogue
    <2>1. Stands(d) /\ (Plain(d) => Fits(d))
        BY <1>1, <1>2 DEF WebDialogue
    <2>2. CASE d # c
        <3>1. pc'[d] = pc[d] /\ asked'[d] = asked[d] /\ inbox'[d] = inbox[d]
            BY <1>1, <1>2, <2>2 DEF WebTypes
        <3> QED
            BY <1>1, <2>1, <3>1, AloneStands
    <2>3. CASE d = c
        <3>1. /\ Quiet(d) /\ error[d] = "none"
              /\ Plain(d) => Latest(d) = NameIn(asked[d])
            BY <1>1, <2>1, <2>3 DEF Stands, Fits
        <3>2. r = <<x>> /\ x.kind \in {"get", "commit"} /\ (x.kind = "get" => x.name = 0)
            BY <1>1, <1>4, <2>3
        <3>3. /\ pc'[d] = "wait" /\ asked'[d] = Append(asked[d], x)
              /\ inbox'[d] = inbox[d] \o r
            BY <1>1, <1>2, <2>3 DEF WebTypes
        <3>4. inbox'[d] = <<x>> /\ Len(inbox'[d]) = 1 /\ inbox'[d][1] = x
            BY <1>4, <3>1, <3>2, <3>3, Single DEF Quiet
        <3>5. Asking(d)' /\ ~Answering(d)' /\ ~Answered(d)'
            <4>1. outbox'[d] = <<>> /\ watched'[d] = "in" /\ inbox'[d] # <<>>
                BY <1>1, <3>1, <3>4, EmptySeq DEF Quiet
            <4> QED
                BY <3>2, <3>4, <4>1 DEF Asking, Answering, Answered
        <3>6. NameIn(asked'[d]) = IF x.name # 0 THEN x.name ELSE NameIn(asked[d])
            BY <1>3, <1>4, <2>3, <3>3, NextName
        <3>7. Latest(d) = name[d]
            BY <3>1, EmptySeq DEF Latest, Asking, Quiet
        <3>8. Plain(d)' => Latest(d)' = NameIn(asked'[d])
            <4>1. Plain(d)' => Plain(d)
                <5>1. Plain(d)' = (ShapesIn(asked'[d]) \subseteq {"fits"})
                    BY DEF Plain, ShapesIn
                <5> QED
                    BY <1>5, <2>3, <5>1 DEF Plain
            <4> QED
                BY <1>1, <3>1, <3>4, <3>5, <3>6, <3>7, <4>1 DEF Latest
        <3>9. asked'[d] # <<>> /\ asked'[d][Len(asked'[d])] = x
            <4>1. asked'[d] \in Seq(Segments) /\ Len(asked'[d]) = Len(asked[c]) + 1
                    /\ asked'[d][Len(asked[c]) + 1] = x
                BY <1>3, <1>4, <2>3, <3>3, AppendProperties
            <4> QED
                BY <1>3, <4>1, EmptySeq, LenProperties
        <3>10. error'[d] = "none"
            BY <1>1, <3>1
        <3>11. Stands(d)'
            BY <3>3, <3>5, <3>10 DEF Stands
        <3>12. Plain(d)' => Fits(d)'
            BY <3>3, <3>4, <3>5, <3>8, <3>9 DEF Fits
        <3> QED
            BY <3>11, <3>12
    <2> QED
        BY <2>2, <2>3
<1> QED
    BY <1>6, <1>7, <1>8, <1>9 DEF WebInv

LEMMA ReceiveKeeps ==
    ASSUME WebInv, NEW c \in WebClients, Web!Receive(c)
    PROVE  WebInv'
<1>1. /\ pc[c] = "wait" /\ outbox[c] # <<>>
      /\ misfit' = IF Head(outbox[c]) = Web!Fitting(c) THEN misfit ELSE misfit \cup {c}
      /\ outbox' = [outbox EXCEPT ![c] = Tail(outbox[c])]
      /\ pc' = [pc EXCEPT ![c] = "idle"]
      /\ server = "runs"
      /\ UNCHANGED <<returned, server, revs, link, watched, handler, name, error, inbox,
                     asked, split>>
    BY DEF Web!Receive, Web!statVars, Web!Running
<1>2. WebTypes /\ Arrivals /\ WebReports /\ Watching /\ WebDialogue /\ WebEnds
    BY DEF WebInv, Web!Running, Web!Receive
<1>3. outbox[c] \in Seq(WebPages) /\ Tail(outbox[c]) \in Seq(WebPages)
    BY <1>1, <1>2, HeadTailProperties DEF WebTypes
<1>4. c \notin split => /\ Answered(c) /\ error[c] = "none"
                        /\ Plain(c) => /\ Latest(c) = NameIn(asked[c])
                                       /\ outbox[c][1] = PageFor(asked[c])
    BY <1>1, <1>2 DEF WebDialogue, Stands, Fits, Asking, Answering, Quiet
<1>5. c \notin split => /\ Tail(outbox[c]) = <<>>
                        /\ Plain(c) => Head(outbox[c]) = PageFor(asked[c])
    BY <1>3, <1>4, OneOf DEF Answered
<1>6. WebTypes' /\ Arrivals'
    BY <1>1, <1>2, <1>3, ArrivalsStay DEF WebTypes
<1>7. WebReports' /\ Watching'
    BY <1>1, <1>2 DEF WebReports, Watching, WebTypes
<1>8. WebEnds'
    <2>1. \A d \in misfit' : d \in split \/ ~Plain(d)
        BY <1>1, <1>2, <1>5, NamesAre DEF WebEnds
    <2> QED
        BY <1>1, <2>1 DEF WebEnds, Plain, ShapesIn
<1>9. WebDialogue'
    <2> SUFFICES ASSUME NEW d \in WebClients \ split PROVE Stands(d)' /\ (Plain(d)' => Fits(d)')
        BY <1>1 DEF WebDialogue
    <2>1. Stands(d) /\ (Plain(d) => Fits(d))
        BY <1>2 DEF WebDialogue
    <2>2. CASE d # c
        <3>1. pc'[d] = pc[d] /\ outbox'[d] = outbox[d]
            BY <1>1, <1>2, <2>2 DEF WebTypes
        <3> QED
            BY <1>1, <2>1, <3>1, AloneStands
    <2>3. CASE d = c
        <3>1. pc'[d] = "idle" /\ outbox'[d] = <<>>
            BY <1>1, <1>2, <1>5, <2>3 DEF WebTypes
        <3>2. Quiet(d)' /\ error'[d] = "none"
            BY <1>1, <1>4, <2>3, <3>1 DEF Quiet, Answered
        <3>3. Plain(d)' => Latest(d)' = NameIn(asked'[d])
            <4>1. Plain(d)' = Plain(d)
                BY <1>1 DEF Plain, ShapesIn
            <4> QED
                BY <1>1, <1>4, <2>3, <4>1, EmptySeq DEF Latest, Asking, Answered, NameIn, Named
        <3> QED
            BY <3>1, <3>2, <3>3 DEF Stands, Fits
    <2> QED
        BY <2>2, <2>3
<1> QED
    BY <1>6, <1>7, <1>8, <1>9 DEF WebInv

LEMMA LeaveKeeps ==
    ASSUME WebInv, NEW c \in WebClients, Web!Leave(c)
    PROVE  WebInv'
<1>1. /\ pc[c] \in {"idle", "wait"}
      /\ error' = [error EXCEPT ![c] = IF outbox[c] # <<>> THEN "pending" ELSE error[c]]
      /\ outbox' = [outbox EXCEPT ![c] = <<>>]
      /\ pc' = [pc EXCEPT ![c] = "left"]
      /\ UNCHANGED <<returned, server, revs, link, watched, handler, name, inbox,
                     asked, split, misfit>>
    BY DEF Web!Leave, Web!statVars
<1>2. WebTypes /\ Arrivals /\ WebReports /\ Watching /\ WebDialogue /\ WebEnds
    BY DEF WebInv, Web!Running, Web!Leave
<1>3. WebTypes' /\ Arrivals'
    BY <1>1, <1>2, EmptySeq, ArrivalsStay DEF WebTypes
<1>4. WebReports' /\ Watching' /\ WebEnds'
    <2>1. server' = server
        BY DEF Web!Leave
    <2> QED
        BY <1>1, <1>2, <2>1, EndsStay DEF WebReports, Watching, WebTypes
<1>5. WebDialogue'
    <2> SUFFICES ASSUME NEW d \in WebClients \ split PROVE Stands(d)' /\ (Plain(d)' => Fits(d)')
        BY <1>1 DEF WebDialogue
    <2>1. Stands(d) /\ (Plain(d) => Fits(d))
        BY <1>2 DEF WebDialogue
    <2>2. CASE d # c
        <3>1. pc'[d] = pc[d] /\ outbox'[d] = outbox[d] /\ error'[d] = error[d]
            BY <1>1, <1>2, <2>2 DEF WebTypes
        <3> QED
            BY <1>1, <2>1, <3>1, AloneStands
    <2>3. CASE d = c
        <3>1. /\ pc'[d] = "left" /\ outbox'[d] = <<>>
              /\ error'[d] = IF outbox[d] # <<>> THEN "pending" ELSE error[d]
            BY <1>1, <1>2, <2>3 DEF WebTypes
        <3>2. error[d] = "none"
            BY <1>1, <2>1, <2>3 DEF Stands
        <3>3. CASE outbox[d] # <<>>
            <4>1. Answered(d)
                BY <1>1, <2>1, <2>3, <3>3 DEF Stands, Asking, Answering, Quiet
            <4>2. Quiet(d)'
                BY <1>1, <3>1, <4>1 DEF Answered, Quiet
            <4> QED
                BY <3>1, <4>2 DEF Stands, Fits
        <3>4. CASE outbox[d] = <<>>
            <4>1. Asking(d) \/ Answering(d) \/ Quiet(d)
                BY <1>1, <2>1, <2>3, <3>4, EmptySeq DEF Stands, Answered
            <4>2. Asking(d)' \/ Answering(d)' \/ Quiet(d)'
                BY <1>1, <3>1, <4>1 DEF Asking, Answering, Quiet
            <4> QED
                BY <3>1, <3>2, <3>4, <4>2 DEF Stands, Fits
        <3> QED
            BY <3>3, <3>4
    <2> QED
        BY <2>2, <2>3
<1> QED
    BY <1>3, <1>4, <1>5 DEF WebInv

-------------------------------------------------------------------------------
(* The web server                                                          *)

LEMMA WebAwaitKeeps ==
    ASSUME WebInv, Web!epoll_wait
    PROVE  WebInv'
<1>1. /\ revs' = {<<c, watched[c]>> : c \in Web!Reported}
                   \cup {<<Listener, "in">> : c \in {d \in WebClients : link[d] = "backlog"}}
      /\ server' = IF returned THEN server ELSE "SIGSEGV"
      /\ server = "runs"
      /\ UNCHANGED <<returned, link, watched, handler, name, error, inbox, outbox,
                     pc, asked, split, misfit>>
    BY DEF Web!epoll_wait, Web!statVars, Web!clientVars, Web!Running
<1>2. WebTypes /\ Arrivals /\ WebReports /\ Watching /\ WebDialogue /\ WebEnds
    BY DEF WebInv, Web!Running, Web!epoll_wait
<1>3. WebReports'
    BY <1>1 DEF WebReports, Web!Reported
<1>4. WebTypes' /\ Arrivals' /\ Watching'
    BY <1>1, <1>2, ArrivalsStay DEF WebTypes, Watching
<1>5. WebEnds'
    <2>1. \A d : Plain(d)' = Plain(d)
        BY <1>1, ShapesStay
    <2> QED
        BY <1>1, <1>2, <2>1 DEF WebEnds
<1>6. WebDialogue'
    <2> SUFFICES ASSUME NEW d \in WebClients \ split PROVE Stands(d)' /\ (Plain(d)' => Fits(d)')
        BY <1>1 DEF WebDialogue
    <2>1. Stands(d) /\ (Plain(d) => Fits(d))
        BY <1>2 DEF WebDialogue
    <2> QED
        BY <1>1, <2>1, AloneStands
<1> QED
    BY <1>3, <1>4, <1>5, <1>6 DEF WebInv

(* An event that is handled, and those that are left                       *)
LEMMA EventIs ==
    ASSUME WebInv, NEW e \in revs, e[1] # Listener, NEW c, c = e[1]
    PROVE  /\ c \in WebClients /\ e[2] = watched[c] /\ link[c] = "open"
           /\ \A x \in revs \ {e} :
                 \/ x = <<Listener, "in">>
                 \/ \E d \in WebClients \ {c} : x = <<d, watched[d]>> /\ link[d] = "open"
<1>1. WebReports
    BY DEF WebInv
<1>2. PICK d \in WebClients : e = <<d, watched[d]>> /\ link[d] = "open"
    BY <1>1 DEF WebReports
<1>3. d = c
    BY <1>2
<1> QED
    BY <1>1, <1>2, <1>3 DEF WebReports

LEMMA ReportsStay ==
    ASSUME WebInv, NEW e \in revs, NEW c, e[1] = c, c # Listener, revs' = revs \ {e},
           \A d \in WebClients \ {c} : watched'[d] = watched[d] /\ link'[d] = link[d]
    PROVE  WebReports'
<1>1. \A x \in revs' :
         \/ x = <<Listener, "in">>
         \/ \E d \in WebClients \ {c} : x = <<d, watched[d]>> /\ link[d] = "open"
    BY EventIs
<1> QED
    BY <1>1 DEF WebReports

LEMMA ConnectHandleKeeps ==
    ASSUME WebInv, NEW c \in WebClients, Web!connect_handle(c), revs' \subseteq revs,
           Web!Running, UNCHANGED <<returned, pc, asked, split, misfit>>
    PROVE  WebInv'
<1>1. /\ link[c] = "backlog"
      /\ link' = [link EXCEPT ![c] = "open"]
      /\ watched' = [watched EXCEPT ![c] = "in"]
      /\ server = "runs"
      /\ UNCHANGED <<server, handler, name, error, inbox, outbox>>
    BY DEF Web!connect_handle, Web!Running
<1>2. WebTypes /\ Arrivals /\ WebReports /\ Watching /\ WebDialogue /\ WebEnds
    BY DEF WebInv, Web!Running
<1>3. watched[c] = "in" /\ watched' = watched
    BY <1>1, <1>2 DEF Watching, WebTypes
<1>4. \A d \in WebClients : link'[d] = IF d = c THEN "open" ELSE link[d]
    BY <1>1, <1>2 DEF WebTypes
<1>5. WebTypes' /\ Arrivals'
    BY <1>1, <1>2, <1>3, ArrivalsStay DEF WebTypes
<1>6. WebReports'
    BY <1>2, <1>3, <1>4 DEF WebReports
<1>7. Watching' /\ WebEnds'
    BY <1>1, <1>2, <1>3, <1>4, EndsStay DEF Watching
<1>8. WebDialogue'
    BY <1>1, <1>2, <1>3, AloneStands DEF WebDialogue
<1> QED
    BY <1>5, <1>6, <1>7, <1>8 DEF WebInv

(* The form of a whole request that is read together with nothing else     *)
LEMMA FormIs ==
    ASSUME NEW data \in Seq(Segments), Len(data) = 1,
           data[1].kind \in {"commit", "form", "rest"}
    PROVE  Web!Form(data) = data[1]
<1> DEFINE filled == {i \in 1..Len(data) : data[i].kind \in {"commit", "form", "rest"}}
<1>1. filled = {1}
    OBVIOUS
<1>2. Web!Min({1}) = 1
    BY DEF Web!Min
<1>3. Web!Form(data) = IF filled = {} THEN Web!Segment("form", 0, "fits")
                       ELSE data[Web!Min(filled)]
    BY DEF Web!Form, Web!Blank
<1> HIDE DEF filled
<1> QED
    BY <1>1, <1>2, <1>3

(* The form of what is read has a shape of what is read, or none.          *)
LEMMA FormType ==
    ASSUME NEW T, "fits" \in T, NEW data \in Seq(Shaped(T))
    PROVE  Web!Form(data) \in Shaped(T)
<1> DEFINE filled == {i \in 1..Len(data) : data[i].kind \in {"commit", "form", "rest"}}
           none == Web!Segment("form", 0, "fits")
<1>1. Web!Form(data) = IF filled = {} THEN none ELSE data[Web!Min(filled)]
    BY DEF Web!Form, Web!Blank
<1>2. none \in Shaped(T)
    BY DEF Shaped, Segments, Kinds, Web!Shapes, Web!Segment
<1>3. CASE filled # {}
    <2>1. filled \in SUBSET Nat /\ Echo!Min(filled) = Web!Min(filled)
        BY DEF Echo!Min, Web!Min
    <2>2. Web!Min(filled) \in filled
        BY <1>3, <2>1, MinIs
    <2>3. data[Web!Min(filled)] \in Shaped(T)
        BY <2>2, ElementOfSeq
    <2> QED
        BY <1>1, <1>3, <2>3
<1> HIDE DEF filled, none
<1> QED
    BY <1>1, <1>2, <1>3

LEMMA ParseKeeps ==
    ASSUME WebInv, NEW e \in revs, NEW c, c = e[1], c # Listener, e[2] = "in",
           revs' = revs \ {e}, NEW k \in 1..Len(inbox[c]),
           inbox' = [inbox EXCEPT ![c] = SubSeq(inbox[c], k + 1, Len(inbox[c]))],
           Web!Parse(c, SubSeq(inbox[c], 1, k)),
           Web!Running, UNCHANGED <<returned, pc, asked, split, misfit>>
    PROVE  WebInv'
<1> DEFINE data == SubSeq(inbox[c], 1, k)
           rest == SubSeq(inbox[c], k + 1, Len(inbox[c]))
<1>1. /\ handler' = [handler EXCEPT ![c] = IF Web!IsCommit(data) THEN "commit" ELSE "welcome"]
      /\ name' = [name EXCEPT ![c] = IF Web!IsCommit(data) THEN Web!Store(c, data) ELSE name[c]]
      /\ watched' = [watched EXCEPT ![c] = "out"]
      /\ server = "runs"
      /\ UNCHANGED <<server, link, error, outbox>>
    BY DEF Web!Parse, Web!Running
<1>2. WebTypes /\ Arrivals /\ WebReports /\ Watching /\ WebDialogue /\ WebEnds
    BY DEF WebInv, Web!Running
<1>3. c \in WebClients /\ watched[c] = "in" /\ link[c] = "open"
    BY EventIs
<1>4. inbox[c] \in Seq(Segments) /\ Len(inbox[c]) \in Nat
    BY <1>2, <1>3, LenProperties DEF WebTypes
<1> DEFINE T == ShapesIn(asked[c]) \cup {"fits"}
<1>5. /\ data \in Seq(Segments) /\ rest \in Seq(Segments)
      /\ data \in Seq(Shaped(T)) /\ rest \in Seq(Shaped(T))
    <2>1. data \in Seq(Segments) /\ rest \in Seq(Segments)
        BY <1>4, PartsOf
    <2>2. inbox[c] \in Seq(Shaped(T))
        BY <1>2, <1>3 DEF Arrivals
    <2>3. data \in Seq(Shaped(T)) /\ rest \in Seq(Shaped(T))
        BY <2>2, PartsOf
    <2> QED
        BY <2>1, <2>3
<1>6. Web!Form(data) \in Shaped(T) /\ Web!Store(c, data) \in Int
    <2>1. Web!Form(data) \in Shaped(T)
        BY <1>5, FormType
    <2> QED
        BY <1>2, <1>3, <2>1 DEF Shaped, Segments, Web!Store, Web!Garbled, WebTypes
<1>7. inbox' = [inbox EXCEPT ![c] = rest]
    OBVIOUS
<1>8. c \notin split => /\ Asking(c) /\ error[c] = "none" /\ k = 1
                        /\ data = inbox[c] /\ rest = <<>>
    <2> SUFFICES ASSUME c \notin split
                 PROVE  Asking(c) /\ error[c] = "none" /\ k = 1 /\ data = inbox[c] /\ rest = <<>>
        OBVIOUS
    <2>1. inbox[c] # <<>>
        BY <1>4, EmptySeq
    <2>2. Asking(c) /\ error[c] = "none"
        BY <1>2, <1>3, <2>1 DEF WebDialogue, Stands, Answering, Answered, Quiet, WebTypes
    <2>3. Len(inbox[c]) = 1 /\ k = 1
        BY <2>2 DEF Asking
    <2>4. SubSeq(inbox[c], 1, 1) = inbox[c] /\ SubSeq(inbox[c], 2, 1) = <<>>
        BY <1>4, <2>3, OneOf
    <2> QED
        BY <2>2, <2>3, <2>4
<1> HIDE DEF data, rest, T
<1>9. \A d \in WebClients \ {c} :
         /\ watched'[d] = watched[d] /\ link'[d] = link[d] /\ inbox'[d] = inbox[d]
         /\ handler'[d] = handler[d] /\ name'[d] = name[d]
    BY <1>1, <1>2, <1>7 DEF WebTypes
<1>10. /\ watched'[c] = "out" /\ inbox'[c] = rest
       /\ handler'[c] = IF Web!IsCommit(data) THEN "commit" ELSE "welcome"
       /\ name'[c] = IF Web!IsCommit(data) THEN Web!Store(c, data) ELSE name[c]
    BY <1>1, <1>2, <1>3, <1>7 DEF WebTypes
<1>11. WebTypes' /\ Arrivals'
    <2>1. handler' \in [WebClients -> {"none", "welcome", "commit"}]
        BY <1>1, <1>2 DEF WebTypes
    <2>2. name' \in [WebClients -> Int]
        BY <1>1, <1>2, <1>3, <1>6 DEF WebTypes
    <2>3. inbox' \in [WebClients -> Seq(Segments)]
        BY <1>2, <1>5, <1>7 DEF WebTypes
    <2>4. watched' \in [WebClients -> {"in", "out"}]
        BY <1>1, <1>2 DEF WebTypes
    <2>5. Arrivals'
        <3>1. \A d \in WebClients : inbox'[d] = IF d = c THEN rest ELSE inbox[d]
            BY <1>2, <1>7 DEF WebTypes
        <3>2. rest \in Seq(Shaped(ShapesIn(asked[c]) \cup {"fits"}))
            BY <1>5 DEF T
        <3> QED
            BY <1>2, <1>3, <3>1, <3>2, ArrivalsRead
    <2> QED
        BY <1>1, <1>2, <2>1, <2>2, <2>3, <2>4, <2>5 DEF WebTypes
<1>12. WebReports'
    BY <1>9, ReportsStay
<1>13. Watching'
    BY <1>1, <1>2, <1>3, <1>9, <1>10 DEF Watching
<1>14. WebEnds'
    BY <1>1, <1>2, EndsStay
<1>15. WebDialogue'
    <2> SUFFICES ASSUME NEW d \in WebClients \ split PROVE Stands(d)' /\ (Plain(d)' => Fits(d)')
        BY DEF WebDialogue
    <2>1. Stands(d) /\ (Plain(d) => Fits(d))
        BY <1>2 DEF WebDialogue
    <2>2. CASE d # c
        BY <1>1, <1>9, <2>1, <2>2, AloneStands
    <2>3. CASE d = c
        <3>1. /\ Asking(c) /\ error[c] = "none" /\ Stands(c) /\ (Plain(c) => Fits(c))
              /\ data = inbox[c] /\ inbox'[c] = <<>>
            BY <1>8, <1>10, <2>1, <2>3
        <3> DEFINE x == inbox[c][1]
        <3>2. /\ Len(inbox[c]) = 1 /\ Head(inbox[c]) = x
              /\ x.kind \in {"get", "commit"} /\ (x.kind = "get" => x.name = 0)
            BY <1>4, <3>1, OneOf DEF Asking
        <3>3. Web!IsCommit(data) <=> x.kind = "commit"
            BY <3>1, <3>2 DEF Web!IsCommit
        <3>4. Plain(c) /\ x.kind = "commit" =>
                 Web!Form(data) = x /\ Web!Form(data).shape = "fits"
            <4>1. x.kind = "commit" => Web!Form(data) = x
                BY <1>4, <3>1, <3>2, FormIs
            <4>2. Plain(c) => Web!Form(data).shape = "fits"
                BY <1>6 DEF Plain, T, Shaped
            <4> QED
                BY <4>1, <4>2
        <3>5. Plain(c) => name'[c] = Latest(c)
            BY <1>10, <3>1, <3>2, <3>3, <3>4 DEF Latest, Web!Store, Web!Blank
        <3>6. Answering(c)' /\ ~Asking(c)' /\ ~Answered(c)'
            BY <1>1, <1>10, <3>1, EmptySeq DEF Asking, Answering, Answered
        <3>7. Stands(c)'
            BY <1>1, <3>1, <3>6, EmptySeq DEF Stands, Asking, Quiet
        <3>8. NameIn(asked[c])' = NameIn(asked[c]) /\ Plain(c)' = Plain(c)
            BY DEF NameIn, Named, Plain, ShapesIn
        <3>9. Latest(c)' = name'[c]
            BY <3>6 DEF Latest
        <3>10. Plain(c) /\ pc[c] = "wait" =>
                  handler'[c] = IF asked[c][Len(asked[c])].kind = "get" THEN "welcome" ELSE "commit"
            BY <1>10, <3>1, <3>2, <3>3 DEF Fits
        <3>11. Plain(c)' => Fits(c)'
            BY <3>1, <3>5, <3>6, <3>8, <3>9, <3>10 DEF Fits
        <3> QED
            BY <2>3, <3>7, <3>11
    <2> QED
        BY <2>2, <2>3
<1> QED
    BY <1>11, <1>12, <1>13, <1>14, <1>15 DEF WebInv

LEMMA ParseFailsKeeps ==
    ASSUME WebInv, NEW e \in revs, NEW c, c = e[1], c # Listener, e[2] = "in",
           revs' = revs \ {e}, NEW k \in 1..Len(inbox[c]),
           inbox' = [inbox EXCEPT ![c] = SubSeq(inbox[c], k + 1, Len(inbox[c]))],
           Web!ParseFails(SubSeq(inbox[c], 1, k)),
           Web!Running, UNCHANGED <<returned, pc, asked, split, misfit>>
    PROVE  WebInv'
<1> DEFINE data == SubSeq(inbox[c], 1, k)
           rest == SubSeq(inbox[c], k + 1, Len(inbox[c]))
<1>1. /\ Head(data).kind = "part" /\ Len(data) = 1
      /\ server' = "SIGSEGV"
      /\ UNCHANGED <<link, watched, handler, name, error, outbox>>
    BY DEF Web!ParseFails, Web!HeaderCut, Web!statVars
<1>2. WebTypes /\ Arrivals /\ WebReports /\ Watching /\ WebDialogue /\ WebEnds
    BY DEF WebInv, Web!Running
<1>3. c \in WebClients /\ watched[c] = "in" /\ link[c] = "open"
    BY EventIs
<1>4. inbox[c] \in Seq(Segments) /\ Len(inbox[c]) \in Nat
    BY <1>2, <1>3, LenProperties DEF WebTypes
<1> DEFINE T == ShapesIn(asked[c]) \cup {"fits"}
<1>5. rest \in Seq(Segments) /\ rest \in Seq(Shaped(T))
    <2>1. inbox[c] \in Seq(Shaped(T))
        BY <1>2, <1>3 DEF Arrivals
    <2> QED
        BY <1>4, <2>1, PartsOf
<1>6. c \in split
    <2> SUFFICES ASSUME c \notin split PROVE FALSE
        OBVIOUS
    <2>1. inbox[c] # <<>>
        BY <1>4, EmptySeq
    <2>2. Asking(c)
        BY <1>2, <1>3, <2>1 DEF WebDialogue, Stands, Answering, Answered, Quiet, WebTypes
    <2>3. Len(inbox[c]) = 1 /\ k = 1
        BY <2>2 DEF Asking
    <2>4. data = inbox[c] /\ Head(inbox[c]) = inbox[c][1]
        BY <1>4, <2>3, OneOf
    <2>5. inbox[c][1].kind = "part"
        <3>1. Head(data) = inbox[c][1]
            BY <2>4
        <3> QED
            BY <1>1, <3>1
    <2> QED
        BY <2>2, <2>5 DEF Asking
<1>7. inbox' = [inbox EXCEPT ![c] = rest]
    OBVIOUS
<1> HIDE DEF data, rest, T
<1>8. WebTypes' /\ Arrivals'
    <2>1. inbox' \in [WebClients -> Seq(Segments)]
        <3>1. inbox \in [WebClients -> Seq(Segments)]
            BY <1>2 DEF WebTypes
        <3> QED
            BY <1>5, <1>7, <3>1
    <2>2. \A d \in WebClients : inbox'[d] = IF d = c THEN rest ELSE inbox[d]
        BY <1>2, <1>7 DEF WebTypes
    <2>3. Arrivals'
        BY <1>2, <1>3, <1>5, <2>2, ArrivalsRead DEF T
    <2> QED
        BY <1>1, <1>2, <2>1, <2>3 DEF WebTypes
<1>9. WebReports'
    BY <1>1, ReportsStay
<1>10. Watching'
    BY <1>1, <1>2 DEF Watching
<1>11. WebEnds'
    BY <1>1, <1>2, <1>6 DEF WebEnds, Plain, ShapesIn
<1>12. WebDialogue'
    <2> SUFFICES ASSUME NEW d \in WebClients \ split PROVE Stands(d)' /\ (Plain(d)' => Fits(d)')
        BY DEF WebDialogue
    <2>1. Stands(d) /\ (Plain(d) => Fits(d))
        BY <1>2 DEF WebDialogue
    <2>2. inbox'[d] = inbox[d]
        BY <1>2, <1>6, <1>7 DEF WebTypes
    <2> QED
        BY <1>1, <2>1, <2>2, AloneStands
<1> QED
    BY <1>8, <1>9, <1>10, <1>11, <1>12 DEF WebInv

(* Then the client that is read from has sent such a form.                 *)
LEMMA ParseOverrunsKeeps ==
    ASSUME WebInv, NEW e \in revs, NEW c, c = e[1], c # Listener, e[2] = "in",
           revs' = revs \ {e}, NEW k \in 1..Len(inbox[c]),
           inbox' = [inbox EXCEPT ![c] = SubSeq(inbox[c], k + 1, Len(inbox[c]))],
           Web!ParseOverruns(SubSeq(inbox[c], 1, k)),
           Web!Running, UNCHANGED <<returned, pc, asked, split, misfit>>
    PROVE  WebInv'
<1> DEFINE data == SubSeq(inbox[c], 1, k)
           rest == SubSeq(inbox[c], k + 1, Len(inbox[c]))
           T == ShapesIn(asked[c]) \cup {"fits"}
<1>1. /\ Web!Form(data).shape = "huge" /\ server' = "overrun"
      /\ UNCHANGED <<link, watched, handler, name, error, outbox>>
    BY DEF Web!ParseOverruns, Web!Overruns, Web!statVars
<1>2. WebTypes /\ Arrivals /\ WebReports /\ Watching /\ WebEnds
    BY DEF WebInv
<1>3. c \in WebClients
    BY EventIs
<1>4. inbox[c] \in Seq(Segments) /\ inbox[c] \in Seq(Shaped(T))
    BY <1>2, <1>3 DEF WebTypes, Arrivals
<1>5. rest \in Seq(Segments) /\ rest \in Seq(Shaped(T)) /\ data \in Seq(Shaped(T))
    BY <1>4, PartsOf
<1>6. "huge" \in ShapesIn(asked[c])
    <2>1. Web!Form(data) \in Shaped(T)
        BY <1>5, FormType
    <2> QED
        BY <1>1, <2>1 DEF Shaped
<1>7. inbox' = [inbox EXCEPT ![c] = rest]
    OBVIOUS
<1> HIDE DEF data, rest, T
<1>8. WebTypes' /\ Arrivals'
    <2>1. inbox' \in [WebClients -> Seq(Segments)]
        BY <1>2, <1>5, <1>7 DEF WebTypes
    <2>2. \A d \in WebClients : inbox'[d] = IF d = c THEN rest ELSE inbox[d]
        BY <1>2, <1>7 DEF WebTypes
    <2>3. Arrivals'
        BY <1>2, <1>3, <1>5, <2>2, ArrivalsRead DEF T
    <2> QED
        BY <1>1, <1>2, <2>1, <2>3 DEF WebTypes
<1>9. WebReports'
    BY <1>1, ReportsStay
<1>10. Watching'
    BY <1>1, <1>2 DEF Watching
<1>11. WebEnds'
    BY <1>1, <1>2, <1>3, <1>6 DEF WebEnds, Plain, ShapesIn
<1> QED
    BY <1>1, <1>8, <1>9, <1>10, <1>11 DEF WebInv

LEMMA ReadFailsKeeps ==
    ASSUME WebInv, NEW e \in revs, NEW c, c = e[1], c # Listener, e[2] = "in",
           revs' = revs \ {e}, Web!ReadFails(c),
           Web!Running, UNCHANGED <<returned, pc, asked, split, misfit>>
    PROVE  WebInv'
<1>1. /\ inbox[c] = <<>> /\ error[c] = "pending"
      /\ error' = [error EXCEPT ![c] = "broken"]
      /\ UNCHANGED <<server, link, watched, handler, name, inbox, outbox>>
    BY DEF Web!ReadFails, Web!statVars
<1>2. WebTypes /\ Arrivals /\ WebReports /\ Watching /\ WebDialogue /\ WebEnds
    BY DEF WebInv, Web!Running
<1>3. c \in WebClients
    BY EventIs
<1>4. (WebTypes /\ Arrivals /\ Watching /\ WebEnds)'
    BY <1>1, <1>2, ArrivalsStay, EndsStay DEF WebTypes, Watching
<1>5. WebReports'
    BY <1>1, ReportsStay
<1>6. WebDialogue'
    <2> SUFFICES ASSUME NEW d \in WebClients \ split PROVE Stands(d)' /\ (Plain(d)' => Fits(d)')
        BY DEF WebDialogue
    <2>1. Stands(d) /\ (Plain(d) => Fits(d))
        BY <1>2 DEF WebDialogue
    <2>2. CASE d # c
        <3>1. error'[d] = error[d]
            BY <1>1, <1>2, <2>2 DEF WebTypes
        <3> QED
            BY <1>1, <2>1, <3>1, AloneStands
    <2>3. CASE d = c
        <3>1. pc[d] = "left" /\ Quiet(d)
            BY <1>1, <2>1, <2>3 DEF Stands
        <3>2. pc'[d] = "left" /\ Quiet(d)'
            BY <1>1, <3>1 DEF Quiet
        <3> QED
            BY <3>2 DEF Stands, Fits
    <2> QED
        BY <2>2, <2>3
<1> QED
    BY <1>4, <1>5, <1>6 DEF WebInv

LEMMA ReadEndsKeeps ==
    ASSUME WebInv, NEW e \in revs, NEW c, c = e[1], c # Listener, e[2] = "in",
           revs' = revs \ {e}, Web!ReadEnds(c),
           Web!Running, UNCHANGED <<returned, pc, asked, split, misfit>>
    PROVE  WebInv'
<1>1. /\ link' = [link EXCEPT ![c] = "closed"]
      /\ handler' = [handler EXCEPT ![c] = "none"]
      /\ UNCHANGED <<server, watched, name, error, inbox, outbox>>
    BY DEF Web!ReadEnds
<1>2. WebTypes /\ Arrivals /\ WebReports /\ Watching /\ WebDialogue /\ WebEnds
    BY DEF WebInv, Web!Running
<1>3. c \in WebClients /\ watched[c] = "in" /\ link[c] = "open"
    BY EventIs
<1>4. WebTypes' /\ Arrivals'
    BY <1>1, <1>2, ArrivalsStay DEF WebTypes
<1>5. \A d \in WebClients \ {c} :
         watched'[d] = watched[d] /\ link'[d] = link[d] /\ handler'[d] = handler[d]
    BY <1>1, <1>2 DEF WebTypes
<1>6. WebReports'
    BY <1>5, ReportsStay
<1>7. Watching' /\ WebEnds'
    BY <1>1, <1>2, <1>3, <1>5, EndsStay DEF Watching
<1>8. WebDialogue'
    <2> SUFFICES ASSUME NEW d \in WebClients \ split PROVE Stands(d)' /\ (Plain(d)' => Fits(d)')
        BY DEF WebDialogue
    <2>1. Stands(d) /\ (Plain(d) => Fits(d))
        BY <1>2 DEF WebDialogue
    <2>2. CASE d # c
        BY <1>1, <1>5, <2>1, <2>2, AloneStands
    <2>3. CASE d = c
        <3>1. ~Answering(d) /\ ~Answering(d)'
            BY <1>1, <1>3, <2>3 DEF Answering
        <3>2. Asking(d)' = Asking(d) /\ Answered(d)' = Answered(d) /\ Quiet(d)' = Quiet(d)
            BY <1>1 DEF Asking, Answered, Quiet
        <3>3. Latest(d)' = Latest(d)
            BY <1>1, <3>2 DEF Latest
        <3>4. /\ NameIn(asked[d])' = NameIn(asked[d])
              /\ PageFor(asked[d])' = PageFor(asked[d])
              /\ Plain(d)' = Plain(d)
            BY DEF NameIn, Named, PageFor, Plain, ShapesIn
        <3> QED
            BY <1>1, <2>1, <3>1, <3>2, <3>3, <3>4 DEF Stands, Fits
    <2> QED
        BY <2>2, <2>3
<1> QED
    BY <1>4, <1>6, <1>7, <1>8 DEF WebInv

LEMMA ResponeKeeps ==
    ASSUME WebInv, NEW e \in revs, NEW c, c = e[1], c # Listener, e[2] = "out",
           revs' = revs \ {e}, Web!do_http_respone(c),
           Web!Running, UNCHANGED <<returned, pc, asked, split, misfit>>
    PROVE  WebInv'
<1> DEFINE page == IF handler[c] = "commit" THEN Web!Page("commit", name[c])
                   ELSE Web!Page("welcome", 0)
<1>1. WebTypes /\ Arrivals /\ WebReports /\ Watching /\ WebDialogue /\ WebEnds
    BY DEF WebInv, Web!Running
<1>2. c \in WebClients /\ watched[c] = "out" /\ link[c] = "open"
    BY EventIs
<1>3. c \notin split => Answering(c) /\ error[c] = "none" /\ pc[c] \in {"wait", "left"}
    BY <1>1, <1>2 DEF WebDialogue, Stands, Asking, Answered, Quiet, WebTypes
<1>4. page \in WebPages
    BY <1>1, <1>2 DEF WebPages, WebTypes, Web!Page
<1>5. CASE error[c] = "broken"
    <2>1. server' = "SIGPIPE" /\ UNCHANGED <<link, watched, handler, name, error, inbox, outbox>>
        BY <1>5 DEF Web!do_http_respone, Web!statVars
    <2>2. WebTypes' /\ Arrivals' /\ Watching'
        BY <1>1, <2>1, ArrivalsStay DEF WebTypes, Watching
    <2>3. WebReports'
        BY <2>1, ReportsStay
    <2>4. WebEnds'
        BY <1>1, <1>2, <1>3, <1>5, <2>1 DEF WebEnds, Plain, ShapesIn
    <2>5. WebDialogue'
        <3> SUFFICES ASSUME NEW d \in WebClients \ split PROVE Stands(d)' /\ (Plain(d)' => Fits(d)')
            BY DEF WebDialogue
        <3>1. Stands(d) /\ (Plain(d) => Fits(d))
            BY <1>1 DEF WebDialogue
        <3> QED
            BY <2>1, <3>1, AloneStands
    <2> QED
        BY <2>2, <2>3, <2>4, <2>5 DEF WebInv
<1>6. CASE error[c] # "broken"
    <2>1. /\ watched' = [watched EXCEPT ![c] = "in"]
          /\ outbox' = [outbox EXCEPT ![c] = IF pc[c] = "left" THEN outbox[c]
                                             ELSE Append(outbox[c], page)]
          /\ error' = [error EXCEPT ![c] = IF pc[c] = "left" THEN "broken" ELSE error[c]]
          /\ UNCHANGED <<server, link, handler, name, inbox>>
        BY <1>6 DEF Web!do_http_respone, Web!Blank
    <2> HIDE DEF page
    <2>2. outbox[c] \in Seq(WebPages) /\ Append(outbox[c], page) \in Seq(WebPages)
        BY <1>1, <1>2, <1>4, AppendProperties DEF WebTypes
    <2>3. WebTypes' /\ Arrivals'
        <3>1. outbox' \in [WebClients -> Seq(WebPages)]
            BY <1>1, <2>1, <2>2 DEF WebTypes
        <3>2. error' \in [WebClients -> {"none", "pending", "broken"}]
            BY <1>1, <2>1 DEF WebTypes
        <3> QED
            BY <1>1, <2>1, <3>1, <3>2, ArrivalsStay DEF WebTypes
    <2>4. \A d \in WebClients \ {c} :
             watched'[d] = watched[d] /\ outbox'[d] = outbox[d] /\ error'[d] = error[d]
        BY <1>1, <2>1 DEF WebTypes
    <2>5. WebReports'
        BY <2>1, <2>4, ReportsStay
    <2>6. Watching' /\ WebEnds'
        BY <1>1, <2>1, EndsStay DEF Watching, WebTypes
    <2>7. WebDialogue'
        <3> SUFFICES ASSUME NEW d \in WebClients \ split PROVE Stands(d)' /\ (Plain(d)' => Fits(d)')
            BY DEF WebDialogue
        <3>1. Stands(d) /\ (Plain(d) => Fits(d))
            BY <1>1 DEF WebDialogue
        <3>2. CASE d # c
            BY <2>1, <2>4, <3>1, <3>2, AloneStands
        <3>3. CASE d = c
            <4>1. /\ inbox[c] = <<>> /\ outbox[c] = <<>> /\ error[c] = "none"
                  /\ Answering(c) /\ (Plain(c) => Fits(c))
                BY <1>3, <3>1, <3>3 DEF Answering
            <4>2. watched'[c] = "in" /\ inbox'[c] = <<>>
                BY <1>1, <1>2, <2>1, <4>1 DEF WebTypes
            <4>3. CASE pc[c] = "left"
                <5>1. outbox'[c] = <<>>
                    BY <1>1, <1>2, <2>1, <4>1, <4>3 DEF WebTypes
                <5>2. Quiet(c)' /\ pc'[c] = "left"
                    BY <4>2, <4>3, <5>1 DEF Quiet
                <5> QED
                    BY <3>3, <5>2 DEF Stands, Fits
            <4>4. CASE pc[c] = "wait"
                <5>1. outbox'[c] = <<page>> /\ error'[c] = "none"
                    BY <1>1, <1>2, <1>4, <2>1, <4>1, <4>4, Single DEF WebTypes
                <5>2. Len(outbox'[c]) = 1 /\ outbox'[c][1] = page
                    BY <1>4, <5>1, Single
                <5>3. Answered(c)' /\ ~Asking(c)' /\ ~Answering(c)'
                    BY <4>2, <5>2, EmptySeq DEF Answered, Asking, Answering
                <5>4. Latest(c) = name[c] /\ Latest(c)' = name[c]
                    BY <2>1, <4>1, <5>3, EmptySeq DEF Latest, Asking
                <5>5. Plain(c) => name[c] = NameIn(asked[c])
                    BY <4>1, <4>4, <5>4 DEF Fits
                <5>6. Plain(c) => page = PageFor(asked[c])
                    BY <4>1, <4>4, <5>5 DEF Fits, PageFor, page
                <5>7. /\ NameIn(asked[c])' = NameIn(asked[c])
                      /\ PageFor(asked[c])' = PageFor(asked[c])
                      /\ Plain(c)' = Plain(c)
                    BY DEF NameIn, Named, PageFor, Plain, ShapesIn
                <5>8. Stands(c)' /\ (Plain(c)' => Fits(c)')
                    BY <4>1, <4>4, <5>1, <5>2, <5>3, <5>4, <5>5, <5>6, <5>7 DEF Stands, Fits
                <5> QED
                    BY <3>3, <5>8
            <4> QED
                BY <1>3, <3>3, <4>3, <4>4
        <3> QED
            BY <3>2, <3>3
    <2> QED
        BY <2>3, <2>5, <2>6, <2>7 DEF WebInv
<1> QED
    BY <1>5, <1>6

LEMMA WebHandleKeeps ==
    ASSUME WebInv, Web!Handle
    PROVE  WebInv'
<1>1. PICK e \in revs :
         /\ revs' = revs \ {e}
         /\ CASE e[1] = Listener -> \E c \in WebClients : Web!connect_handle(c)
              [] e[1] # Listener /\ e[2] = "in" -> Web!do_http_request(e[1])
              [] e[1] # Listener /\ e[2] = "out" -> Web!do_http_respone(e[1])
    BY DEF Web!Handle
<1>2. Web!Running /\ UNCHANGED <<returned, pc, asked, split, misfit>>
    BY DEF Web!Handle, Web!clientVars
<1>3. CASE e[1] = Listener
    <2>1. PICK c \in WebClients : Web!connect_handle(c)
        BY <1>1, <1>3
    <2> QED
        BY <1>1, <1>2, <2>1, ConnectHandleKeeps
<1>4. CASE e[1] # Listener /\ e[2] = "in"
    <2> DEFINE c == e[1]
    <2>1. Web!do_http_request(c)
        BY <1>1, <1>4
    <2> HIDE DEF c
    <2>2. c = e[1]
        BY DEF c
    <2>3. CASE Web!ReadFails(c)
        BY <1>1, <1>2, <1>4, <2>2, <2>3, ReadFailsKeeps
    <2>4. CASE Web!ReadEnds(c)
        BY <1>1, <1>2, <1>4, <2>2, <2>4, ReadEndsKeeps
    <2>5. ASSUME NEW k \in 1..Len(inbox[c]),
                 inbox' = [inbox EXCEPT ![c] = SubSeq(inbox[c], k + 1, Len(inbox[c]))],
                 \/ Web!Parse(c, SubSeq(inbox[c], 1, k))
                 \/ Web!ParseFails(SubSeq(inbox[c], 1, k))
                 \/ Web!ParseOverruns(SubSeq(inbox[c], 1, k))
          PROVE  WebInv'
        BY <1>1, <1>2, <1>4, <2>2, <2>5, ParseKeeps, ParseFailsKeeps, ParseOverrunsKeeps
    <2> QED
        BY <2>1, <2>3, <2>4, <2>5 DEF Web!do_http_request
<1>5. CASE e[1] # Listener /\ e[2] = "out"
    <2>1. Web!do_http_respone(e[1])
        BY <1>1, <1>5
    <2> QED
        BY <1>1, <1>2, <1>5, <2>1, ResponeKeeps
<1>6. e[1] # Listener => e[2] \in {"in", "out"}
    <2>1. e[1] # Listener => e[1] \in WebClients /\ e[2] = watched[e[1]]
        BY EventIs
    <2>2. watched \in [WebClients -> {"in", "out"}]
        BY DEF WebInv, WebTypes
    <2> QED
        BY <2>1, <2>2
<1> QED
    BY <1>3, <1>4, <1>5, <1>6

LEMMA WebStep == WebInv /\ Web!Next => WebInv'
<1> SUFFICES ASSUME WebInv, Web!Next PROVE WebInv'
    OBVIOUS
<1>1. CASE Web!epoll_wait
    BY <1>1, WebAwaitKeeps
<1>2. CASE Web!Handle
    BY <1>2, WebHandleKeeps
<1>3. CASE \E c \in WebClients : Web!Connect(c) \/ Web!Receive(c) \/ Web!Leave(c)
    BY <1>3, WebConnectKeeps, ReceiveKeeps, LeaveKeeps
<1>4. CASE \E c \in WebClients : \E r \in Web!Requests(c) : Web!Ask(c, r)
    BY <1>4, AskKeeps
<1> QED
    BY <1>1, <1>2, <1>3, <1>4 DEF Web!Next, Web!Server
-------------------------------------------------------------------------------
(* The invariant of the test clients                                       *)

Requests == [event : {"mobile", "login"}, code : Nat]
Pieces == [kind : {"whole", "head", "tail"}, event : {"mobile", "login"}, code : Nat]

(* Requests for a code, and the pieces by which a client counts responses  *)
(* with one; where they are in a queue.                                    *)
Mobiles == {r \in Requests : r.event = "mobile"}
Tellings == {p \in Pieces : p.event = "mobile" /\ p.kind # "tail"}
Where(s, X) == {i \in 1..Len(s) : s[i] \in X}

TestTypes ==
    /\ icode \in [TestClients -> Nat] /\ m2c \in Nat
    /\ requests \in [TestClients -> Seq(Requests)]
    /\ responses \in [TestClients -> Seq(Pieces)]
    /\ unheard \in [TestClients -> Int]

(* What a client has asked for and not been told is on its way.            *)
Counted ==
    \A c \in TestClients :
        unheard[c] = Cardinality(Where(requests[c], Mobiles))
                       + Cardinality(Where(responses[c], Tellings))

(* A head is followed by its tail, and nothing else is.                    *)
Paired(s) ==
    /\ \A i \in 1..Len(s) : s[i].kind = "head" => i < Len(s) /\ s[i + 1].kind = "tail"
    /\ \A i \in 1..Len(s) : s[i].kind = "tail" => i > 1 /\ s[i - 1].kind = "head"

(* Nothing but requests for codes follows one.                             *)
Sorted(s) ==
    \A i, j \in 1..Len(s) : i < j /\ s[i].event = "mobile" => s[j].event = "mobile"

Orderly ==
    /\ \A c \in TestClients \ mangled : Paired(responses[c])
    /\ \A c \in TestClients \ hasty : Sorted(requests[c])

(* The client whose code it is knows it, or will when it has read, and     *)
(* logs in with it.                                                        *)
Knows(c) ==
    /\ m2c # 0
    /\ Where(responses[c], Tellings) = {} => icode[c] = m2c
    /\ \A i \in Where(responses[c], Tellings) :
          (\A j \in Where(responses[c], Tellings) : j <= i) => responses[c][i].code = m2c
    /\ c \notin hasty => \A i \in 1..Len(requests[c]) :
          requests[c][i].event = "login" => requests[c][i].code = m2c

TestInv ==
    /\ TestTypes /\ Counted /\ Orderly
    /\ \A c \in TestClients \ mangled : c \in asker => Knows(c)
    /\ refused \subseteq hasty \cup mangled \cup overtaken

-------------------------------------------------------------------------------
(* Its queues                                                              *)

LEMMA WhereIs ==
    ASSUME NEW S, NEW s \in Seq(S), NEW X
    PROVE  /\ IsFiniteSet(Where(s, X)) /\ Cardinality(Where(s, X)) \in Nat
           /\ Cardinality(Where(s, X)) = 0 <=> Where(s, X) = {}
<1>1. Len(s) \in Nat
    BY LenProperties
<1>2. IsFiniteSet(1..Len(s))
    BY <1>1, FS_Interval
<1>3. Where(s, X) \in SUBSET (1..Len(s))
    BY DEF Where
<1>4. IsFiniteSet(Where(s, X))
    BY <1>2, <1>3, FS_Subset
<1> QED
    BY <1>4, FS_CardinalityType, FS_EmptySet

LEMMA WhereBoth ==
    ASSUME NEW S, NEW s \in Seq(S), NEW t \in Seq(S), NEW X
    PROVE  /\ Where(s \o t, X) = Where(s, X) \cup {i + Len(s) : i \in Where(t, X)}
           /\ Cardinality(Where(s \o t, X)) = Cardinality(Where(s, X)) + Cardinality(Where(t, X))
<1> DEFINE n == Len(s)
           m == Len(t)
           A == Where(s, X)
           B == Where(t, X)
           C == {i + n : i \in B}
<1>1. n \in Nat /\ m \in Nat
    BY LenProperties
<1>2. /\ Len(s \o t) = n + m
      /\ \A i \in 1..n : (s \o t)[i] = s[i]
      /\ \A i \in 1..m : (s \o t)[i + n] = t[i]
    <2>1. /\ Len(s \o t) = n + m
          /\ \A i \in 1..(n + m) : (s \o t)[i] = IF i <= n THEN s[i] ELSE t[i - n]
        BY ConcatProperties
    <2> HIDE DEF n, m
    <2>2. ASSUME NEW i \in 1..m PROVE (s \o t)[i + n] = t[i]
        <3>1. i + n \in 1..(n + m) /\ ~(i + n <= n) /\ (i + n) - n = i
            BY <1>1
        <3> QED
            BY <2>1, <3>1
    <2>3. ASSUME NEW i \in 1..n PROVE (s \o t)[i] = s[i]
        <3>1. i \in 1..(n + m) /\ i <= n
            BY <1>1
        <3> QED
            BY <2>1, <3>1
    <2> QED
        BY <2>1, <2>2, <2>3
<1>3. \A i : i \in A <=> i \in 1..n /\ s[i] \in X
    BY DEF Where
<1>4. \A i : i \in B <=> i \in 1..m /\ t[i] \in X
    BY DEF Where
<1>5. \A i : i \in Where(s \o t, X) <=> i \in 1..(n + m) /\ (s \o t)[i] \in X
    BY <1>2 DEF Where
<1> HIDE DEF n, m, A, B
<1>6. Where(s \o t, X) = A \cup C
    <2>1. ASSUME NEW i \in Where(s \o t, X) PROVE i \in A \cup C
        <3>1. i \in 1..(n + m) /\ (s \o t)[i] \in X
            BY <1>5, <2>1
        <3>2. CASE i \in 1..n
            BY <1>2, <1>3, <3>1, <3>2
        <3>3. CASE i \notin 1..n
            <4>1. i - n \in 1..m /\ i = (i - n) + n
                BY <1>1, <3>1, <3>3
            <4>2. i - n \in B
                BY <1>2, <1>4, <3>1, <4>1
            <4> QED
                BY <4>1, <4>2
        <3> QED
            BY <3>2, <3>3
    <2>2. ASSUME NEW i \in A PROVE i \in Where(s \o t, X)
        <3>1. i \in 1..n /\ s[i] \in X
            BY <1>3
        <3>2. i \in 1..(n + m)
            BY <1>1, <3>1
        <3> QED
            BY <1>2, <1>5, <3>1, <3>2
    <2>3. ASSUME NEW i \in B PROVE i + n \in Where(s \o t, X)
        <3>1. i \in 1..m /\ t[i] \in X
            BY <1>4
        <3>2. i + n \in 1..(n + m)
            BY <1>1, <3>1
        <3> QED
            BY <1>2, <1>5, <3>1, <3>2
    <2> QED
        BY <2>1, <2>2, <2>3
<1>7. IsFiniteSet(A) /\ IsFiniteSet(B) /\ Cardinality(A) \in Nat
    BY WhereIs DEF A, B
<1>8. ExistsBijection(B, C)
    <2> DEFINE f == [i \in B |-> i + n]
    <2>1. \A i, j \in B : f[i] = f[j] => i = j
        BY <1>1, <1>4
    <2>2. f \in [B -> C] /\ \A z \in C : \E i \in B : f[i] = z
        OBVIOUS
    <2>3. f \in Bijection(B, C)
        BY <2>1, <2>2 DEF Bijection, Injection, Surjection, IsInjective
    <2> QED
        BY <2>3 DEF ExistsBijection
<1>9. IsFiniteSet(C) /\ Cardinality(C) = Cardinality(B)
    BY <1>7, <1>8, FS_Bijection
<1>10. A \cap C = {}
    <2>1. \A i \in A : i <= n
        BY <1>1, <1>3
    <2>2. \A i \in B : ~(i + n <= n)
        BY <1>1, <1>4
    <2> QED
        BY <2>1, <2>2
<1>11. Cardinality(A \cup C) = Cardinality(A) + Cardinality(B)
    <2>1. Cardinality(A \cup C) = Cardinality(A) + Cardinality(C) - Cardinality(A \cap C)
        BY <1>7, <1>9, FS_Union
    <2>2. Cardinality(A \cap C) = 0
        BY <1>10, FS_EmptySet
    <2>3. Cardinality(B) \in Nat
        BY <1>7, FS_CardinalityType
    <2> QED
        BY <1>7, <1>9, <2>1, <2>2, <2>3
<1> QED
    BY <1>6, <1>11 DEF A, B, n

LEMMA CountBoth ==
    ASSUME NEW S, NEW s \in Seq(S), NEW t \in Seq(S), NEW X
    PROVE  Cardinality(Where(s \o t, X)) = Cardinality(Where(s, X)) + Cardinality(Where(t, X))
BY WhereBoth

LEMMA WhereOne ==
    ASSUME NEW x, NEW X
    PROVE  /\ x \in X => Where(<<x>>, X) = {1} /\ Cardinality(Where(<<x>>, X)) = 1
           /\ x \notin X => Where(<<x>>, X) = {} /\ Cardinality(Where(<<x>>, X)) = 0
<1>1. Len(<<x>>) = 1 /\ <<x>>[1] = x
    OBVIOUS
<1>2. x \in X => Where(<<x>>, X) = {1}
    BY <1>1 DEF Where
<1>3. x \notin X => Where(<<x>>, X) = {}
    BY <1>1 DEF Where
<1> QED
    BY <1>2, <1>3, FS_Singleton, FS_EmptySet

(* One more at the end                                                     *)
LEMMA WhereAppend ==
    ASSUME NEW S, NEW s \in Seq(S), NEW x \in S, NEW X
    PROVE  /\ x \in X => Cardinality(Where(Append(s, x), X)) = Cardinality(Where(s, X)) + 1
           /\ x \notin X => Cardinality(Where(Append(s, x), X)) = Cardinality(Where(s, X))
<1>1. <<x>> \in Seq(S) /\ Append(s, x) = s \o <<x>>
    BY Single, AppendIsConcat
<1>2. Cardinality(Where(s \o <<x>>, X)) = Cardinality(Where(s, X)) + Cardinality(Where(<<x>>, X))
    BY <1>1, CountBoth
<1>3. Cardinality(Where(s, X)) \in Nat
    BY WhereIs
<1> QED
    BY <1>1, <1>2, <1>3, WhereOne

(* The first k are taken.                                                  *)
LEMMA WhereRead ==
    ASSUME NEW S, NEW s \in Seq(S), NEW k \in 1..Len(s), NEW X
    PROVE  /\ SubSeq(s, 1, k) \in Seq(S) /\ Len(SubSeq(s, 1, k)) = k
           /\ SubSeq(s, k + 1, Len(s)) \in Seq(S) /\ Len(SubSeq(s, k + 1, Len(s))) = Len(s) - k
           /\ \A i \in 1..k : SubSeq(s, 1, k)[i] = s[i]
           /\ \A i \in 1..(Len(s) - k) : SubSeq(s, k + 1, Len(s))[i] = s[k + i]
           /\ Cardinality(Where(s, X)) = Cardinality(Where(SubSeq(s, 1, k), X))
                                           + Cardinality(Where(SubSeq(s, k + 1, Len(s)), X))
<1> DEFINE n == Len(s)
           a == SubSeq(s, 1, k)
           b == SubSeq(s, k + 1, n)
<1>1. n \in Nat /\ k \in 1..n
    BY LenProperties
<1>2. \A i \in 1..n : s[i] \in S
    BY ElementOfSeq
<1> HIDE DEF n
<1>3. a \in Seq(S) /\ Len(a) = k /\ \A i \in 1..k : a[i] = s[i]
    <2>1. \A i \in 1..k : s[i] \in S
        BY <1>1, <1>2
    <2>2. 1 \in Int /\ k \in Int /\ 1 <= k /\ k - 1 + 1 = k
        BY <1>1
    <2>3. /\ a \in Seq(S) /\ Len(a) = IF 1 <= k THEN k - 1 + 1 ELSE 0
          /\ \A i \in 1..(k - 1 + 1) : a[i] = s[1 + i - 1]
        BY <2>1, <2>2, SubSeqProperties
    <2> HIDE DEF a
    <2>4. \A i \in 1..k : 1 + i - 1 = i
        BY <1>1
    <2> QED
        BY <2>2, <2>3, <2>4
<1>4. b \in Seq(S) /\ Len(b) = n - k /\ \A i \in 1..(n - k) : b[i] = s[k + i]
    <2>1. \A i \in (k + 1)..n : s[i] \in S
        BY <1>1, <1>2
    <2>2. k + 1 \in Int /\ n \in Int /\ n - (k + 1) + 1 = n - k
        BY <1>1
    <2>3. /\ b \in Seq(S) /\ Len(b) = IF k + 1 <= n THEN n - (k + 1) + 1 ELSE 0
          /\ \A i \in 1..(n - (k + 1) + 1) : b[i] = s[k + 1 + i - 1]
        BY <2>1, <2>2, SubSeqProperties
    <2> HIDE DEF b
    <2>4. \A i \in 1..(n - k) : k + 1 + i - 1 = k + i
        BY <1>1
    <2>5. Len(b) = n - k
        BY <1>1, <2>2, <2>3
    <2> QED
        BY <2>2, <2>3, <2>4, <2>5
<1>5. a \o b = s
    <2>1. 1 \in 1..(n + 1) /\ k \in (1 - 1)..n /\ n \in k..n
        BY <1>1
    <2>2. a \o b = SubSeq(s, 1, n)
        BY <2>1, ConcatAdjacentSubSeq DEF n
    <2> QED
        BY <2>2, SubSeqFull DEF n
<1> HIDE DEF a, b
<1>6. Cardinality(Where(s, X)) = Cardinality(Where(a, X)) + Cardinality(Where(b, X))
    BY <1>3, <1>4, <1>5, CountBoth
<1> QED
    BY <1>3, <1>4, <1>6 DEF a, b, n

(* The first is taken.                                                     *)
LEMMA WhereTail ==
    ASSUME NEW S, NEW s \in Seq(S), s # <<>>, NEW X
    PROVE  /\ Tail(s) \in Seq(S) /\ Head(s) = s[1] /\ s[1] \in S /\ Len(s) \in Nat \ {0}
           /\ Len(Tail(s)) = Len(s) - 1 /\ \A i \in 1..(Len(s) - 1) : Tail(s)[i] = s[i + 1]
           /\ s[1] \in X => Cardinality(Where(Tail(s), X)) = Cardinality(Where(s, X)) - 1
           /\ s[1] \notin X => Cardinality(Where(Tail(s), X)) = Cardinality(Where(s, X))
<1>1. Len(s) \in Nat \ {0} /\ Head(s) = s[1] /\ s[1] \in S
    BY EmptySeq, ElementOfSeq
<1>2. /\ Tail(s) \in Seq(S) /\ Len(Tail(s)) = Len(s) - 1
      /\ \A i \in 1..(Len(s) - 1) : Tail(s)[i] = s[i + 1]
    BY HeadTailProperties
<1>3. 1 \in 1..Len(s)
    BY <1>1
<1>4. /\ SubSeq(s, 1, 1) \in Seq(S) /\ Len(SubSeq(s, 1, 1)) = 1 /\ SubSeq(s, 1, 1)[1] = s[1]
      /\ Cardinality(Where(s, X)) = Cardinality(Where(SubSeq(s, 1, 1), X))
                                      + Cardinality(Where(SubSeq(s, 1 + 1, Len(s)), X))
    BY <1>3, WhereRead
<1>5. SubSeq(s, 1 + 1, Len(s)) = Tail(s)
    BY TailIsSubSeq
<1>6. SubSeq(s, 1, 1) = <<s[1]>>
    <2> DEFINE a == SubSeq(s, 1, 1)
               b == <<s[1]>>
    <2>1. b \in Seq(S) /\ Len(b) = 1 /\ b[1] = s[1]
        BY <1>1, Single
    <2>2. a \in Seq(S) /\ Len(a) = 1 /\ a[1] = s[1]
        BY <1>4
    <2> HIDE DEF a, b
    <2>3. \A i \in 1..1 : a[i] = b[i]
        BY <2>1, <2>2
    <2>4. a = b
        BY <2>1, <2>2, <2>3, SeqEqual
    <2> QED
        BY <2>4 DEF a, b
<1>7. Cardinality(Where(Tail(s), X)) \in Nat
    BY <1>2, WhereIs
<1>8. /\ Cardinality(Where(s, X)) = Cardinality(Where(<<s[1]>>, X)) + Cardinality(Where(Tail(s), X))
      /\ s[1] \in X => Cardinality(Where(<<s[1]>>, X)) = 1
      /\ s[1] \notin X => Cardinality(Where(<<s[1]>>, X)) = 0
    BY <1>4, <1>5, <1>6, WhereOne
<1> QED
    BY <1>1, <1>2, <1>7, <1>8

-------------------------------------------------------------------------------
(* The test clients and their server                                       *)

LEMMA TestInit == Test!Init => TestInv
<1> SUFFICES ASSUME Test!Init PROVE TestInv
    OBVIOUS
<1>1. <<>> \in Seq(Requests) /\ <<>> \in Seq(Pieces) /\ Len(<<>>) = 0
    BY EmptySeq
<1>2. TestTypes
    BY <1>1 DEF Test!Init, TestTypes, Test!Unset
<1>3. \A X : Where(<<>>, X) = {}
    BY <1>1 DEF Where
<1>4. Counted
    <2> SUFFICES ASSUME NEW c \in TestClients
                 PROVE  unheard[c] = Cardinality(Where(requests[c], Mobiles))
                                       + Cardinality(Where(responses[c], Tellings))
        BY DEF Counted
    <2>1. requests[c] = <<>> /\ responses[c] = <<>> /\ unheard[c] = 0
        BY DEF Test!Init
    <2>2. Cardinality({}) = 0
        BY FS_EmptySet
    <2>3. Where(requests[c], Mobiles) = {} /\ Where(responses[c], Tellings) = {}
        BY <1>3, <2>1
    <2>4. Cardinality(Where(requests[c], Mobiles)) = 0
        BY <2>2, <2>3
    <2>5. Cardinality(Where(responses[c], Tellings)) = 0
        BY <2>2, <2>3
    <2>6. unheard[c] = 0
        BY <2>1
    <2> QED
        BY <2>4, <2>5, <2>6
<1>5. Orderly
    <2>1. \A c \in TestClients : requests[c] = <<>> /\ responses[c] = <<>>
        BY DEF Test!Init
    <2>2. Paired(<<>>) /\ Sorted(<<>>)
        BY <1>1 DEF Paired, Sorted
    <2> QED
        BY <2>1, <2>2 DEF Orderly
<1>6. asker = {} /\ refused = {}
    BY DEF Test!Init
<1> QED
    BY <1>2, <1>4, <1>5, <1>6 DEF TestInv

LEMMA SendMobileKeeps ==
    ASSUME TestInv, NEW c \in TestClients, Test!send_mr(c)
    PROVE  TestInv'
<1> DEFINE r == [event |-> "mobile", code |-> 0]
           q == requests[c]
<1>1. /\ requests' = [requests EXCEPT ![c] = Append(q, r)]
      /\ unheard' = [unheard EXCEPT ![c] = unheard[c] + 1]
      /\ UNCHANGED <<icode, responses, m2c, asker, refused, overtaken, mangled, hasty>>
    BY DEF Test!send_mr, Test!Type, Test!serverVars, Test!Unset
<1>2. r \in Requests /\ r \in Mobiles /\ r.event = "mobile"
    BY DEF Requests, Mobiles
<1> HIDE DEF r
<1>3. TestTypes /\ Counted /\ Orderly /\ \A d \in TestClients \ mangled : d \in asker => Knows(d)
    BY DEF TestInv
<1>4. q \in Seq(Requests)
    BY <1>3 DEF TestTypes
<1>5. /\ Append(q, r) \in Seq(Requests) /\ Len(Append(q, r)) = Len(q) + 1 /\ Len(q) \in Nat
      /\ \A i \in 1..Len(q) : Append(q, r)[i] = q[i]
      /\ Append(q, r)[Len(q) + 1] = r
    BY <1>2, <1>4, AppendProperties, LenProperties
<1>6. /\ requests'[c] = Append(q, r) /\ unheard'[c] = unheard[c] + 1
      /\ \A d \in TestClients \ {c} : requests'[d] = requests[d] /\ unheard'[d] = unheard[d]
    BY <1>1, <1>3 DEF TestTypes
<1>7. TestTypes'
    BY <1>1, <1>3, <1>5 DEF TestTypes
<1>8. Counted'
    <2> SUFFICES ASSUME NEW d \in TestClients
                 PROVE  unheard'[d] = Cardinality(Where(requests'[d], Mobiles))
                                        + Cardinality(Where(responses'[d], Tellings))
        BY DEF Counted
    <2>1. unheard[d] = Cardinality(Where(requests[d], Mobiles))
                         + Cardinality(Where(responses[d], Tellings))
        BY <1>3 DEF Counted
    <2>2. CASE d = c
        <3>1. Cardinality(Where(Append(q, r), Mobiles)) = Cardinality(Where(q, Mobiles)) + 1
            BY <1>2, <1>4, WhereAppend
        <3>2. Cardinality(Where(q, Mobiles)) \in Nat
            BY <1>4, WhereIs
        <3>3. responses[c] \in Seq(Pieces)
            BY <1>3 DEF TestTypes
        <3>4. Cardinality(Where(responses[c], Tellings)) \in Nat
            BY <3>3, WhereIs
        <3> QED
            BY <1>1, <1>6, <2>1, <2>2, <3>1, <3>2, <3>4
    <2>3. CASE d # c
        BY <1>1, <1>6, <2>1, <2>3
    <2> QED
        BY <2>2, <2>3
<1>9. Orderly'
    <2>1. Sorted(q) => Sorted(Append(q, r))
        <3> SUFFICES ASSUME Sorted(q), NEW i \in 1..(Len(q) + 1), NEW j \in 1..(Len(q) + 1),
                            i < j, Append(q, r)[i].event = "mobile"
                     PROVE  Append(q, r)[j].event = "mobile"
            BY <1>5 DEF Sorted
        <3>1. CASE j = Len(q) + 1
            BY <1>2, <1>5, <3>1
        <3>2. CASE j # Len(q) + 1
            <4>1. i \in 1..Len(q) /\ j \in 1..Len(q)
                BY <1>5, <3>2
            <4> QED
                BY <1>5, <4>1 DEF Sorted
        <3> QED
            BY <3>1, <3>2
    <2> QED
        BY <1>1, <1>3, <1>6, <2>1 DEF Orderly
<1>10. ASSUME NEW d \in TestClients \ mangled, d \in asker
       PROVE  Knows(d)'
    <2>1. Knows(d)
        BY <1>3, <1>10
    <2>2. d \notin hasty => \A i \in 1..Len(requests'[d]) :
             requests'[d][i].event = "login" => requests'[d][i].code = m2c
        <3>1. CASE d # c
            BY <1>6, <2>1, <3>1 DEF Knows
        <3>2. CASE d = c
            <4> SUFFICES ASSUME d \notin hasty, NEW i \in 1..(Len(q) + 1),
                                Append(q, r)[i].event = "login"
                         PROVE  Append(q, r)[i].code = m2c
                BY <1>5, <1>6, <3>2
            <4>1. i # Len(q) + 1
                BY <1>2, <1>5
            <4>2. i \in 1..Len(q)
                BY <1>5, <4>1
            <4> QED
                BY <1>5, <2>1, <3>2, <4>2 DEF Knows
        <3> QED
            BY <3>1, <3>2
    <2> QED
        BY <1>1, <2>1, <2>2 DEF Knows
<1> QED
    BY <1>1, <1>7, <1>8, <1>9, <1>10 DEF TestInv

LEMMA SendLoginKeeps ==
    ASSUME TestInv, NEW c \in TestClients, Test!send_lr(c)
    PROVE  TestInv'
<1> DEFINE r == [event |-> "login", code |-> icode[c]]
           q == requests[c]
<1>1. /\ requests' = [requests EXCEPT ![c] = Append(q, r)]
      /\ hasty' = IF unheard[c] > 0 \/ icode[c] = 0 THEN hasty \cup {c} ELSE hasty
      /\ UNCHANGED <<icode, responses, m2c, asker, refused, overtaken, mangled, unheard>>
    BY DEF Test!send_lr, Test!Type, Test!serverVars, Test!Unset
<1>2. TestTypes /\ Counted /\ Orderly /\ \A d \in TestClients \ mangled : d \in asker => Knows(d)
    BY DEF TestInv
<1>3. r \in Requests /\ r \notin Mobiles /\ r.event = "login" /\ r.code = icode[c]
    BY <1>2 DEF Requests, Mobiles, TestTypes
<1> HIDE DEF r
<1>4. q \in Seq(Requests) /\ responses[c] \in Seq(Pieces)
    BY <1>2 DEF TestTypes
<1>5. /\ Append(q, r) \in Seq(Requests) /\ Len(Append(q, r)) = Len(q) + 1 /\ Len(q) \in Nat
      /\ \A i \in 1..Len(q) : Append(q, r)[i] = q[i]
      /\ Append(q, r)[Len(q) + 1] = r
    BY <1>3, <1>4, AppendProperties, LenProperties
<1>6. /\ requests'[c] = Append(q, r)
      /\ \A d \in TestClients \ {c} : requests'[d] = requests[d]
    BY <1>1, <1>2 DEF TestTypes
<1>7. TestTypes'
    BY <1>1, <1>2, <1>5 DEF TestTypes
<1>8. Cardinality(Where(Append(q, r), Mobiles)) = Cardinality(Where(q, Mobiles))
    BY <1>3, <1>4, WhereAppend
<1>9. Counted'
    <2> SUFFICES ASSUME NEW d \in TestClients
                 PROVE  unheard'[d] = Cardinality(Where(requests'[d], Mobiles))
                                        + Cardinality(Where(responses'[d], Tellings))
        BY DEF Counted
    <2>1. unheard[d] = Cardinality(Where(requests[d], Mobiles))
                         + Cardinality(Where(responses[d], Tellings))
        BY <1>2 DEF Counted
    <2>2. CASE d = c
        BY <1>1, <1>6, <1>8, <2>1, <2>2
    <2>3. CASE d # c
        BY <1>1, <1>6, <2>1, <2>3
    <2> QED
        BY <2>2, <2>3
<1>10. c \notin hasty' => Where(q, Mobiles) = {} /\ Where(responses[c], Tellings) = {}
    <2> SUFFICES ASSUME c \notin hasty'
                 PROVE  Where(q, Mobiles) = {} /\ Where(responses[c], Tellings) = {}
        OBVIOUS
    <2>1. ~(unheard[c] > 0)
        BY <1>1
    <2>2. Cardinality(Where(q, Mobiles)) \in Nat /\ Cardinality(Where(responses[c], Tellings)) \in Nat
        BY <1>4, WhereIs
    <2>3. unheard[c] = Cardinality(Where(q, Mobiles)) + Cardinality(Where(responses[c], Tellings))
        BY <1>2 DEF Counted
    <2>4. Cardinality(Where(q, Mobiles)) = 0 /\ Cardinality(Where(responses[c], Tellings)) = 0
        BY <2>1, <2>2, <2>3
    <2> QED
        BY <1>4, <2>4, WhereIs
<1>11. Orderly'
    <2>1. c \notin hasty' => Sorted(Append(q, r))
        <3> SUFFICES ASSUME c \notin hasty', NEW i \in 1..(Len(q) + 1), NEW j \in 1..(Len(q) + 1),
                            i < j, Append(q, r)[i].event = "mobile"
                     PROVE  FALSE
            BY <1>5 DEF Sorted
        <3>1. i \in 1..Len(q)
            BY <1>5
        <3>2. q[i].event = "mobile" /\ q[i] \in Requests
            BY <1>4, <1>5, <3>1, ElementOfSeq
        <3>3. i \in Where(q, Mobiles)
            BY <3>1, <3>2 DEF Where, Mobiles
        <3> QED
            BY <1>10, <3>3
    <2>2. hasty \subseteq hasty'
        BY <1>1
    <2>3. \A d \in TestClients \ hasty' : Sorted(requests'[d])
        BY <1>2, <1>6, <2>1, <2>2 DEF Orderly
    <2>4. \A d \in TestClients \ mangled' : Paired(responses'[d])
        BY <1>1, <1>2 DEF Orderly
    <2> QED
        BY <2>3, <2>4 DEF Orderly
<1>12. ASSUME NEW d \in TestClients \ mangled, d \in asker
       PROVE  Knows(d)'
    <2>1. Knows(d)
        BY <1>2, <1>12
    <2>2. d \notin hasty' => \A i \in 1..Len(requests'[d]) :
             requests'[d][i].event = "login" => requests'[d][i].code = m2c
        <3>1. CASE d # c
            BY <1>1, <1>6, <2>1, <3>1 DEF Knows
        <3>2. CASE d = c
            <4> SUFFICES ASSUME d \notin hasty', NEW i \in 1..(Len(q) + 1),
                                Append(q, r)[i].event = "login"
                         PROVE  Append(q, r)[i].code = m2c
                BY <1>5, <1>6, <3>2
            <4>1. CASE i = Len(q) + 1
                BY <1>3, <1>5, <1>10, <2>1, <3>2, <4>1 DEF Knows
            <4>2. CASE i # Len(q) + 1
                <5>1. i \in 1..Len(q)
                    BY <1>5, <4>2
                <5>2. d \notin hasty
                    BY <1>1
                <5> QED
                    BY <1>5, <2>1, <3>2, <5>1, <5>2 DEF Knows
            <4> QED
                BY <4>1, <4>2
        <3> QED
            BY <3>1, <3>2
    <2> QED
        BY <1>1, <2>1, <2>2 DEF Knows
<1>13. (refused \subseteq hasty \cup mangled \cup overtaken)'
    BY <1>1 DEF TestInv
<1> QED
    BY <1>1, <1>7, <1>9, <1>11, <1>12, <1>13 DEF TestInv

(* What TCP delivers behind what is under way                              *)
LEMMA Delivered ==
    ASSUME NEW s \in Seq(Pieces), NEW t, NEW event \in {"mobile", "login"}, NEW code \in Nat,
           t \in {<<Test!Piece("whole", event, code)>>,
                  <<Test!Piece("head", event, code), Test!Piece("tail", event, code)>>}
    PROVE  /\ s \o t \in Seq(Pieces) /\ Len(s) \in Nat /\ Len(s \o t) > Len(s)
           /\ \A i \in 1..Len(s) : (s \o t)[i] = s[i]
           /\ (s \o t)[Len(s) + 1].code = code
           /\ Paired(s) => Paired(s \o t)
           /\ event = "mobile" =>
                 /\ Where(s \o t, Tellings) = Where(s, Tellings) \cup {Len(s) + 1}
                 /\ Cardinality(Where(s \o t, Tellings)) = Cardinality(Where(s, Tellings)) + 1
           /\ event = "login" =>
                 /\ Where(s \o t, Tellings) = Where(s, Tellings)
                 /\ Cardinality(Where(s \o t, Tellings)) = Cardinality(Where(s, Tellings))
<1> DEFINE n == Len(s)
           m == Len(t)
           u == s \o t
<1>1. /\ t \in Seq(Pieces) /\ m \in {1, 2} /\ t[1].event = event /\ t[1].code = code
      /\ t[1] \in Pieces
      /\ m = 1 => t[1].kind = "whole"
      /\ m = 2 => t[1].kind = "head" /\ t[2].kind = "tail" /\ t[2] \in Pieces
    <2>1. \A k \in {"whole", "head", "tail"} : Test!Piece(k, event, code) \in Pieces
        BY DEF Test!Piece, Pieces
    <2>2. CASE t = <<Test!Piece("whole", event, code)>>
        BY <2>1, <2>2, SeqDef DEF Test!Piece
    <2>3. CASE t = <<Test!Piece("head", event, code), Test!Piece("tail", event, code)>>
        BY <2>1, <2>3, SeqDef DEF Test!Piece
    <2> QED
        BY <2>2, <2>3
<1>2. n \in Nat
    BY LenProperties
<1>3. /\ u \in Seq(Pieces) /\ Len(u) = n + m
      /\ \A i \in 1..(n + m) : u[i] = IF i <= n THEN s[i] ELSE t[i - n]
    BY <1>1, ConcatProperties
<1> HIDE DEF n, m, u
<1>4. \A i \in 1..n : u[i] = s[i]
    <2> TAKE i \in 1..n
    <2>1. i \in 1..(n + m) /\ i <= n
        BY <1>1, <1>2
    <2> QED
        BY <1>3, <2>1
<1>5. u[n + 1] = t[1] /\ (m = 2 => u[n + 2] = t[2])
    <2>1. n + 1 \in 1..(n + m) /\ ~(n + 1 <= n) /\ (n + 1) - n = 1
        BY <1>1, <1>2
    <2>2. m = 2 => n + 2 \in 1..(n + m) /\ ~(n + 2 <= n) /\ (n + 2) - n = 2
        BY <1>1, <1>2
    <2> QED
        BY <1>3, <2>1, <2>2
<1>6. Paired(s) => Paired(u)
    <2> SUFFICES ASSUME Paired(s), NEW i \in 1..(n + m)
                 PROVE  /\ u[i].kind = "head" => i < n + m /\ u[i + 1].kind = "tail"
                        /\ u[i].kind = "tail" => i > 1 /\ u[i - 1].kind = "head"
        BY <1>3 DEF Paired
    <2>1. CASE i \in 1..n
        <3>1. /\ s[i].kind = "head" => i < n /\ s[i + 1].kind = "tail"
              /\ s[i].kind = "tail" => i > 1 /\ s[i - 1].kind = "head"
            BY <2>1 DEF Paired, n
        <3>2. u[i] = s[i] /\ (i < n => u[i + 1] = s[i + 1]) /\ (i > 1 => u[i - 1] = s[i - 1])
            BY <1>2, <1>4, <2>1
        <3> QED
            BY <1>1, <1>2, <2>1, <3>1, <3>2
    <2>2. CASE i = n + 1
        BY <1>1, <1>2, <1>5, <2>2
    <2>3. CASE i = n + 2 /\ m = 2
        <3>1. i - 1 = n + 1 /\ i > 1
            BY <1>2, <2>3
        <3> QED
            BY <1>1, <1>5, <2>3, <3>1
    <2>4. i \in 1..n \/ i = n + 1 \/ (i = n + 2 /\ m = 2)
        BY <1>1, <1>2
    <2> QED
        BY <2>1, <2>2, <2>3, <2>4
<1>7. t[1] \in Tellings <=> event = "mobile"
    BY <1>1 DEF Tellings
<1>8. m = 2 => t[2] \notin Tellings
    BY <1>1 DEF Tellings
<1>9. Where(t, Tellings) = IF event = "mobile" THEN {1} ELSE {}
    BY <1>1, <1>7, <1>8 DEF Where, m
<1>10. Cardinality(Where(t, Tellings)) = IF event = "mobile" THEN 1 ELSE 0
    BY <1>9, FS_Singleton, FS_EmptySet
<1>11. Cardinality(Where(s, Tellings)) \in Nat
    BY WhereIs
<1>12. Cardinality(Where(u, Tellings)) = Cardinality(Where(s, Tellings)) + Cardinality(Where(t, Tellings))
    BY <1>1, CountBoth DEF u
<1>13. Where(u, Tellings) = Where(s, Tellings) \cup (IF event = "mobile" THEN {n + 1} ELSE {})
    <2>1. Where(u, Tellings) = Where(s, Tellings) \cup {i + n : i \in Where(t, Tellings)}
        BY <1>1, WhereBoth DEF u, n
    <2>2. {i + n : i \in {1}} = {n + 1} /\ {i + n : i \in {}} = {}
        BY <1>2
    <2> QED
        BY <1>9, <2>1, <2>2
<1>14. u \in Seq(Pieces) /\ n \in Nat /\ Len(u) > n /\ u[n + 1].code = code
    BY <1>1, <1>2, <1>3, <1>5
<1>15. event = "login" => Where(u, Tellings) = Where(s, Tellings)
    BY <1>13
<1>16. event = "mobile" => Where(u, Tellings) = Where(s, Tellings) \cup {n + 1}
    BY <1>13
<1> QED
    BY <1>4, <1>6, <1>10, <1>11, <1>12, <1>14, <1>15, <1>16 DEF u, n

LEMMA MobileCodeKeeps ==
    ASSUME TestInv, NEW c \in TestClients, Test!handle_mobile_code_req(c)
    PROVE  TestInv'
<1> DEFINE q == requests[c]
           s == responses[c]
<1>1. TestTypes /\ Counted /\ Orderly
    BY DEF TestInv
<1>2. /\ q # <<>> /\ Head(q).event = "mobile"
      /\ requests' = [requests EXCEPT ![c] = Tail(q)]
      /\ UNCHANGED <<icode, unheard, mangled, hasty, refused, overtaken>>
      /\ asker' = {c}
    BY DEF Test!handle_mobile_code_req, Test!Take
<1>3. PICK code \in Codes :
         /\ m2c' = code
         /\ \E t \in {<<Test!Piece("whole", "mobile", code)>>,
                      <<Test!Piece("head", "mobile", code), Test!Piece("tail", "mobile", code)>>} :
               responses' = [responses EXCEPT ![c] = s \o t]
    BY DEF Test!handle_mobile_code_req, Test!Deliver
<1>4. PICK t \in {<<Test!Piece("whole", "mobile", code)>>,
                  <<Test!Piece("head", "mobile", code), Test!Piece("tail", "mobile", code)>>} :
         responses' = [responses EXCEPT ![c] = s \o t]
    BY <1>3
<1>5. code \in Nat /\ code # 0
    BY CodesAssumption
<1>6. q \in Seq(Requests) /\ s \in Seq(Pieces)
    BY <1>1 DEF TestTypes
<1>7. /\ s \o t \in Seq(Pieces) /\ Len(s) \in Nat /\ (s \o t)[Len(s) + 1].code = code
      /\ Paired(s) => Paired(s \o t)
      /\ Where(s \o t, Tellings) = Where(s, Tellings) \cup {Len(s) + 1}
      /\ Cardinality(Where(s \o t, Tellings)) = Cardinality(Where(s, Tellings)) + 1
    BY <1>4, <1>5, <1>6, Delivered
<1>8. /\ Tail(q) \in Seq(Requests) /\ Head(q) = q[1] /\ q[1] \in Requests /\ Len(q) \in Nat \ {0}
      /\ Len(Tail(q)) = Len(q) - 1 /\ \A i \in 1..(Len(q) - 1) : Tail(q)[i] = q[i + 1]
    BY <1>2, <1>6, WhereTail
<1>9. q[1] \in Mobiles
    BY <1>2, <1>8 DEF Mobiles
<1>10. Cardinality(Where(Tail(q), Mobiles)) = Cardinality(Where(q, Mobiles)) - 1
    BY <1>2, <1>6, <1>9, WhereTail
<1> DEFINE u == s \o t
<1> HIDE DEF u
<1>11. /\ requests'[c] = Tail(q) /\ responses'[c] = u
       /\ \A d \in TestClients \ {c} : requests'[d] = requests[d] /\ responses'[d] = responses[d]
    BY <1>1, <1>2, <1>4 DEF TestTypes, u
<1>12. TestTypes'
    <2>1. requests' \in [TestClients -> Seq(Requests)]
        BY <1>1, <1>2, <1>8 DEF TestTypes
    <2>2. responses' \in [TestClients -> Seq(Pieces)]
        BY <1>1, <1>4, <1>7 DEF TestTypes
    <2> QED
        BY <1>1, <1>2, <1>3, <1>5, <2>1, <2>2 DEF TestTypes
<1>13. Counted'
    <2> SUFFICES ASSUME NEW d \in TestClients
                 PROVE  unheard'[d] = Cardinality(Where(requests'[d], Mobiles))
                                        + Cardinality(Where(responses'[d], Tellings))
        BY DEF Counted
    <2>1. unheard[d] = Cardinality(Where(requests[d], Mobiles))
                         + Cardinality(Where(responses[d], Tellings))
        BY <1>1 DEF Counted
    <2>2. CASE d = c
        <3>1. Cardinality(Where(q, Mobiles)) \in Nat /\ Cardinality(Where(s, Tellings)) \in Nat
            BY <1>6, WhereIs
        <3>2. Cardinality(Where(u, Tellings)) = Cardinality(Where(s, Tellings)) + 1
            BY <1>7 DEF u
        <3>3. Cardinality(Where(requests'[c], Mobiles)) = Cardinality(Where(q, Mobiles)) - 1
            BY <1>10, <1>11
        <3>4. Cardinality(Where(responses'[c], Tellings)) = Cardinality(Where(s, Tellings)) + 1
            BY <1>11, <3>2
        <3>5. unheard'[c] = Cardinality(Where(q, Mobiles)) + Cardinality(Where(s, Tellings))
            BY <1>2, <2>1, <2>2
        <3> QED
            BY <2>2, <3>1, <3>3, <3>4, <3>5
    <2>3. CASE d # c
        BY <1>2, <1>11, <2>1, <2>3
    <2> QED
        BY <2>2, <2>3
<1>14. Sorted(q) => \A i \in 1..Len(Tail(q)) : Tail(q)[i].event = "mobile"
    <2> SUFFICES ASSUME Sorted(q), NEW i \in 1..(Len(q) - 1)
                 PROVE  Tail(q)[i].event = "mobile"
        BY <1>8
    <2>1. 1 \in 1..Len(q) /\ i + 1 \in 1..Len(q) /\ 1 < i + 1
        BY <1>8
    <2>2. q[i + 1].event = "mobile"
        BY <1>2, <1>8, <2>1 DEF Sorted
    <2> QED
        BY <1>8, <2>2
<1>15. Orderly'
    <2>1. Sorted(q) => Sorted(Tail(q))
        BY <1>14 DEF Sorted
    <2>2. \A d \in TestClients \ hasty' : Sorted(requests'[d])
        BY <1>1, <1>2, <1>11, <2>1 DEF Orderly
    <2>3. \A d \in TestClients \ mangled' : Paired(responses'[d])
        BY <1>1, <1>2, <1>7, <1>11 DEF Orderly, u
    <2> QED
        BY <2>2, <2>3 DEF Orderly
<1>16. ASSUME NEW d \in TestClients \ mangled, d \in asker'
       PROVE  Knows(d)'
    <2>1. d = c
        BY <1>2, <1>16
    <2>2. m2c' = code /\ m2c' # 0
        BY <1>3, <1>5
    <2>3. /\ Len(s) + 1 \in Where(responses'[c], Tellings)
          /\ responses'[c][Len(s) + 1].code = code
          /\ \A i \in Where(responses'[c], Tellings) : i \in 1..Len(s) \/ i = Len(s) + 1
        BY <1>7, <1>11 DEF u, Where
    <2>4. ASSUME NEW i \in Where(responses'[c], Tellings),
                 \A j \in Where(responses'[c], Tellings) : j <= i
          PROVE  responses'[c][i].code = m2c'
        <3>1. i = Len(s) + 1
            <4>1. Len(s) + 1 <= i
                BY <2>3, <2>4
            <4>2. i \in 1..Len(s) \/ i = Len(s) + 1
                BY <2>3
            <4> HIDE DEF s
            <4> QED
                BY <1>7, <4>1, <4>2
        <3> QED
            BY <2>2, <2>3, <3>1
    <2>5. c \notin hasty' => \A i \in 1..Len(requests'[c]) : requests'[c][i].event # "login"
        BY <1>1, <1>2, <1>11, <1>14 DEF Orderly
    <2> QED
        BY <2>1, <2>2, <2>3, <2>4, <2>5 DEF Knows
<1>17. (refused \subseteq hasty \cup mangled \cup overtaken)'
    BY <1>2 DEF TestInv
<1> QED
    BY <1>2, <1>12, <1>13, <1>15, <1>16, <1>17 DEF TestInv

LEMMA LoginKeeps ==
    ASSUME TestInv, NEW c \in TestClients, Test!handle_login_req(c)
    PROVE  TestInv'
<1> DEFINE q == requests[c]
           s == responses[c]
           good == m2c # 0 /\ Head(q).code = m2c
<1>1. TestTypes /\ Counted /\ Orderly /\ \A d \in TestClients \ mangled : d \in asker => Knows(d)
    BY DEF TestInv
<1>2. /\ q # <<>> /\ Head(q).event = "login"
      /\ requests' = [requests EXCEPT ![c] = Tail(q)]
      /\ refused' = IF good THEN refused ELSE refused \cup {c}
      /\ overtaken' = IF good \/ c \in asker THEN overtaken ELSE overtaken \cup {c}
      /\ UNCHANGED <<icode, unheard, mangled, hasty, m2c, asker>>
    BY DEF Test!handle_login_req, Test!Take, Test!Unset
<1>3. PICK t \in {<<Test!Piece("whole", "login", 0)>>,
                  <<Test!Piece("head", "login", 0), Test!Piece("tail", "login", 0)>>} :
         responses' = [responses EXCEPT ![c] = s \o t]
    BY DEF Test!handle_login_req, Test!Deliver, Test!Unset
<1>4. q \in Seq(Requests) /\ s \in Seq(Pieces)
    BY <1>1 DEF TestTypes
<1>5. /\ s \o t \in Seq(Pieces)
      /\ \A i \in 1..Len(s) : (s \o t)[i] = s[i]
      /\ Paired(s) => Paired(s \o t)
      /\ Where(s \o t, Tellings) = Where(s, Tellings)
    BY <1>3, <1>4, Delivered
<1>6. /\ Tail(q) \in Seq(Requests) /\ Head(q) = q[1] /\ q[1] \in Requests /\ Len(q) \in Nat \ {0}
      /\ Len(Tail(q)) = Len(q) - 1 /\ \A i \in 1..(Len(q) - 1) : Tail(q)[i] = q[i + 1]
    BY <1>2, <1>4, WhereTail
<1>7. q[1] \notin Mobiles
    BY <1>2, <1>6 DEF Mobiles
<1>8. Cardinality(Where(Tail(q), Mobiles)) = Cardinality(Where(q, Mobiles))
    BY <1>2, <1>4, <1>7, WhereTail
<1> DEFINE u == s \o t
<1> HIDE DEF u
<1>9. /\ requests'[c] = Tail(q) /\ responses'[c] = u
      /\ \A d \in TestClients \ {c} : requests'[d] = requests[d] /\ responses'[d] = responses[d]
    BY <1>1, <1>2, <1>3 DEF TestTypes, u
<1>10. /\ Where(u, Tellings) = Where(s, Tellings)
       /\ \A i \in Where(s, Tellings) : u[i] = s[i]
    BY <1>5 DEF u, Where
<1>11. TestTypes'
    <2>1. requests' \in [TestClients -> Seq(Requests)]
        BY <1>1, <1>2, <1>6 DEF TestTypes
    <2>2. responses' \in [TestClients -> Seq(Pieces)]
        BY <1>1, <1>3, <1>5 DEF TestTypes
    <2> QED
        BY <1>1, <1>2, <2>1, <2>2 DEF TestTypes
<1>12. Counted'
    <2> SUFFICES ASSUME NEW d \in TestClients
                 PROVE  unheard'[d] = Cardinality(Where(requests'[d], Mobiles))
                                        + Cardinality(Where(responses'[d], Tellings))
        BY DEF Counted
    <2>1. unheard[d] = Cardinality(Where(requests[d], Mobiles))
                         + Cardinality(Where(responses[d], Tellings))
        BY <1>1 DEF Counted
    <2>2. CASE d = c
        BY <1>2, <1>8, <1>9, <1>10, <2>1, <2>2
    <2>3. CASE d # c
        BY <1>2, <1>9, <2>1, <2>3
    <2> QED
        BY <2>2, <2>3
<1>13. Orderly'
    <2>1. Sorted(q) => Sorted(Tail(q))
        <3> SUFFICES ASSUME Sorted(q), NEW i \in 1..(Len(q) - 1), NEW j \in 1..(Len(q) - 1),
                            i < j, Tail(q)[i].event = "mobile"
                     PROVE  Tail(q)[j].event = "mobile"
            BY <1>6 DEF Sorted
        <3>1. i + 1 \in 1..Len(q) /\ j + 1 \in 1..Len(q) /\ i + 1 < j + 1
            BY <1>6
        <3> QED
            BY <1>6, <3>1 DEF Sorted
    <2>2. \A d \in TestClients \ hasty' : Sorted(requests'[d])
        BY <1>1, <1>2, <1>9, <2>1 DEF Orderly
    <2>3. \A d \in TestClients \ mangled' : Paired(responses'[d])
        BY <1>1, <1>2, <1>5, <1>9 DEF Orderly, u
    <2> QED
        BY <2>2, <2>3 DEF Orderly
<1>14. ASSUME NEW d \in TestClients \ mangled, d \in asker
       PROVE  Knows(d)'
    <2>1. Knows(d)
        BY <1>1, <1>14
    <2>2. CASE d # c
        BY <1>2, <1>9, <2>1, <2>2 DEF Knows
    <2>3. CASE d = c
        <3>1. d \notin hasty => \A i \in 1..Len(requests'[d]) :
                 requests'[d][i].event = "login" => requests'[d][i].code = m2c
            <4> SUFFICES ASSUME d \notin hasty, NEW i \in 1..(Len(q) - 1),
                                Tail(q)[i].event = "login"
                         PROVE  Tail(q)[i].code = m2c
                BY <1>6, <1>9, <2>3
            <4>1. i + 1 \in 1..Len(q)
                BY <1>6
            <4> QED
                BY <1>6, <2>1, <2>3, <4>1 DEF Knows
        <3>2. /\ Where(responses'[d], Tellings) = {} => icode[d] = m2c
              /\ \A i \in Where(responses'[d], Tellings) :
                    (\A j \in Where(responses'[d], Tellings) : j <= i)
                    => responses'[d][i].code = m2c
            BY <1>9, <1>10, <2>1, <2>3 DEF Knows
        <3> QED
            BY <1>2, <2>1, <3>1, <3>2 DEF Knows
    <2> QED
        BY <2>2, <2>3
<1>15. ~good => c \in hasty \cup mangled \cup overtaken'
    <2> SUFFICES ASSUME ~good, c \notin mangled, c \notin hasty, c \in asker PROVE FALSE
        BY <1>2
    <2>1. Knows(c)
        BY <1>1
    <2>2. 1 \in 1..Len(q) /\ q[1].event = "login"
        BY <1>2, <1>6
    <2> QED
        BY <1>6, <2>1, <2>2 DEF Knows
<1>16. (refused \subseteq hasty \cup mangled \cup overtaken)'
    <2>1. refused \subseteq hasty \cup mangled \cup overtaken
        BY DEF TestInv
    <2> QED
        BY <1>2, <1>15, <2>1
<1> QED
    BY <1>2, <1>11, <1>12, <1>13, <1>14, <1>16 DEF TestInv

LEMMA EventCbKeeps ==
    ASSUME TestInv, NEW c \in TestClients, Test!event_cb(c)
    PROVE  TestInv'
<1>1. UNCHANGED <<icode, requests, responses, m2c, asker, refused, overtaken, unheard,
                  mangled, hasty>>
    BY DEF Test!event_cb, Test!serverVars
<1> QED
    BY <1>1 DEF TestInv, TestTypes, Counted, Orderly, Knows

(* It read one response, and this is its code then.                        *)
Reads(c, s, k, code) ==
    /\ k \in {1, 2} /\ s[k].kind # "head" /\ (k = 2 => s[2].kind = "tail")
    /\ 1 \in Where(s, Tellings) => code = s[1].code
    /\ 1 \notin Where(s, Tellings) => code = icode[c]

(* A client that has read nothing but whole responses, one at a time, has  *)
(* the code of the first piece if that tells of one, and keeps its own if  *)
(* not.                                                                    *)
LEMMA ParsedIs ==
    ASSUME NEW c, NEW s \in Seq(Pieces), NEW k \in 1..Len(s), Paired(s),
           Test!Intact(SubSeq(s, 1, k)), NEW code \in Test!Parsed(c, SubSeq(s, 1, k))
    PROVE  Reads(c, s, k, code)
<1> DEFINE a == SubSeq(s, 1, k)
<1>1. a \in Seq(Pieces) /\ Len(a) = k /\ \A i \in 1..k : a[i] = s[i]
    BY WhereRead
<1>2. Len(s) \in Nat /\ k \in Nat /\ 1 <= k /\ k <= Len(s)
    BY LenProperties
<1>3. Head(a) = a[1] /\ a[1] = s[1] /\ s[1] \in Pieces
    <2>1. a # <<>>
        BY <1>1, <1>2, EmptySeq
    <2>2. 1 \in 1..k /\ 1 \in 1..Len(s)
        BY <1>2
    <2>3. Head(a) = a[1]
        BY <1>1, <2>1
    <2>4. s[1] \in Pieces
        BY <2>2, ElementOfSeq
    <2> QED
        BY <1>1, <2>2, <2>3, <2>4
<1>4. \/ k = 1 /\ s[1].kind = "whole"
      \/ k = 2 /\ s[1].kind = "head"
    BY <1>1, <1>3 DEF Test!Intact
<1>5. k = 2 => s[2].kind = "tail"
    BY <1>2, <1>4 DEF Paired
<1>6. 1 \in Where(s, Tellings) <=> s[1].event = "mobile"
    <2>1. 1 \in 1..Len(s)
        BY <1>2
    <2>2. s[1].kind # "tail"
        BY <1>4
    <2> QED
        BY <1>3, <2>1, <2>2 DEF Where, Tellings
<1>7. code \in Test!Parsed(c, a)
    OBVIOUS
<1> HIDE DEF a
<1>8. s[1].event = "mobile" => code = s[1].code
    BY <1>1, <1>3, <1>4, <1>7 DEF Test!Parsed
<1>9. s[1].event # "mobile" => code = icode[c]
    <2>1. s[1].event # "mobile" => s[1].event = "login"
        BY <1>3 DEF Pieces
    <2> QED
        BY <1>3, <1>7, <2>1 DEF Test!Parsed
<1>10. k \in {1, 2} /\ s[k].kind # "head"
    BY <1>4, <1>5
<1> QED
    BY <1>5, <1>6, <1>8, <1>9, <1>10 DEF Reads

LEMMA ParsedType ==
    ASSUME NEW c, icode[c] \in Nat, NEW s \in Seq(Pieces), NEW k \in 1..Len(s),
           NEW code \in Test!Parsed(c, SubSeq(s, 1, k))
    PROVE  code \in Nat
<1> DEFINE a == SubSeq(s, 1, k)
<1>1. a \in Seq(Pieces) /\ Len(a) = k
    BY WhereRead
<1>2. Len(s) \in Nat /\ k \in Nat /\ 1 <= k
    BY LenProperties
<1> HIDE DEF a
<1>3. a # <<>>
    BY <1>1, <1>2, EmptySeq
<1>4. Head(a) \in Pieces
    BY <1>1, <1>3, HeadTailProperties
<1>5. Head(a).code \in Nat
    BY <1>4 DEF Pieces
<1>6. Test!Parsed(c, a) \subseteq {icode[c], Head(a).code, 0}
    BY DEF Test!Parsed, Test!Unset
<1> QED
    BY <1>5, <1>6 DEF a

LEMMA ServerMsgKeeps ==
    ASSUME TestInv, NEW c \in TestClients, NEW k \in 1..Len(responses[c]), Test!server_msg_cb(c, k)
    PROVE  TestInv'
<1> DEFINE s == responses[c]
           a == SubSeq(s, 1, k)
           b == SubSeq(s, k + 1, Len(s))
<1>1. TestTypes /\ Counted /\ Orderly /\ \A d \in TestClients \ mangled : d \in asker => Knows(d)
    BY DEF TestInv
<1>2. /\ responses' = [responses EXCEPT ![c] = b]
      /\ mangled' = IF Test!Intact(a) THEN mangled ELSE mangled \cup {c}
      /\ unheard' = [unheard EXCEPT ![c] = unheard[c] - Test!Told(a)]
      /\ UNCHANGED <<requests, m2c, asker, refused, overtaken, hasty>>
    BY DEF Test!server_msg_cb, Test!Read, Test!serverVars
<1>3. PICK code \in Test!Parsed(c, a) : icode' = [icode EXCEPT ![c] = code]
    BY DEF Test!server_msg_cb
<1>4. s \in Seq(Pieces) /\ icode[c] \in Nat /\ Len(s) \in Nat /\ k \in 1..Len(s)
    BY <1>1, LenProperties DEF TestTypes
<1>5. code \in Nat
    BY <1>3, <1>4, ParsedType
<1>6. /\ a \in Seq(Pieces) /\ b \in Seq(Pieces) /\ Len(b) = Len(s) - k
      /\ \A i \in 1..(Len(s) - k) : b[i] = s[k + i]
      /\ Cardinality(Where(s, Tellings))
           = Cardinality(Where(a, Tellings)) + Cardinality(Where(b, Tellings))
    BY <1>4, WhereRead
<1>7. c \notin mangled' => /\ c \notin mangled /\ Paired(s)
                           /\ k \in {1, 2} /\ s[k].kind # "head" /\ (k = 2 => s[2].kind = "tail")
                           /\ 1 \in Where(s, Tellings) => code = s[1].code
                           /\ 1 \notin Where(s, Tellings) => code = icode[c]
    <2> SUFFICES ASSUME c \notin mangled'
                 PROVE  /\ c \notin mangled /\ Paired(s)
                        /\ k \in {1, 2} /\ s[k].kind # "head" /\ (k = 2 => s[2].kind = "tail")
                        /\ 1 \in Where(s, Tellings) => code = s[1].code
                        /\ 1 \notin Where(s, Tellings) => code = icode[c]
        OBVIOUS
    <2>1. Test!Intact(a) /\ c \notin mangled
        BY <1>2
    <2>2. Paired(s)
        BY <1>1, <2>1 DEF Orderly
    <2>3. code \in Test!Parsed(c, a)
        BY <1>3
    <2>4. Reads(c, s, k, code)
        BY <1>4, <2>1, <2>2, <2>3, ParsedIs
    <2> QED
        BY <2>1, <2>2, <2>4 DEF Reads
<1>8. Test!Told(a) = Cardinality(Where(a, Tellings))
    <2>1. {i \in 1..Len(a) : a[i].event = "mobile" /\ a[i].kind # "tail"} = Where(a, Tellings)
        BY <1>6, ElementOfSeq DEF Where, Tellings
    <2>2. Test!Told(a) = Cardinality({i \in 1..Len(a) : a[i].event = "mobile" /\ a[i].kind # "tail"})
        BY DEF Test!Told, Test!Cardinality, Cardinality
    <2> QED
        BY <2>1, <2>2
<1> HIDE DEF a, b
<1>9. /\ responses'[c] = b /\ icode'[c] = code /\ unheard'[c] = unheard[c] - Test!Told(a)
      /\ \A d \in TestClients \ {c} :
            responses'[d] = responses[d] /\ icode'[d] = icode[d] /\ unheard'[d] = unheard[d]
    BY <1>1, <1>2, <1>3 DEF TestTypes
<1>10. /\ Cardinality(Where(a, Tellings)) \in Nat /\ Cardinality(Where(b, Tellings)) \in Nat
       /\ Cardinality(Where(requests[c], Mobiles)) \in Nat
    <2>1. requests[c] \in Seq(Requests)
        BY <1>1 DEF TestTypes
    <2> QED
        BY <1>6, <2>1, WhereIs
<1>11. TestTypes'
    <2>1. responses' \in [TestClients -> Seq(Pieces)]
        BY <1>1, <1>2, <1>6 DEF TestTypes
    <2>2. unheard' \in [TestClients -> Int]
        <3>1. unheard[c] - Test!Told(a) \in Int
            BY <1>1, <1>8, <1>10 DEF TestTypes
        <3> QED
            BY <1>1, <1>2, <3>1 DEF TestTypes
    <2>3. icode' \in [TestClients -> Nat]
        BY <1>1, <1>3, <1>5 DEF TestTypes
    <2> QED
        BY <1>1, <1>2, <2>1, <2>2, <2>3 DEF TestTypes
<1>12. Counted'
    <2> SUFFICES ASSUME NEW d \in TestClients
                 PROVE  unheard'[d] = Cardinality(Where(requests'[d], Mobiles))
                                        + Cardinality(Where(responses'[d], Tellings))
        BY DEF Counted
    <2>1. unheard[d] = Cardinality(Where(requests[d], Mobiles))
                         + Cardinality(Where(responses[d], Tellings))
        BY <1>1 DEF Counted
    <2>2. CASE d = c
        <3>1. unheard'[c] = unheard[c] - Cardinality(Where(a, Tellings))
            BY <1>8, <1>9
        <3>2. Cardinality(Where(responses'[c], Tellings)) = Cardinality(Where(b, Tellings))
            BY <1>9
        <3>3. unheard[c] = Cardinality(Where(requests[c], Mobiles))
                             + (Cardinality(Where(a, Tellings)) + Cardinality(Where(b, Tellings)))
            BY <1>6, <2>1, <2>2
        <3>4. Cardinality(Where(requests'[c], Mobiles)) = Cardinality(Where(requests[c], Mobiles))
            BY <1>2
        <3> QED
            BY <1>10, <2>2, <3>1, <3>2, <3>3, <3>4
    <2>3. CASE d # c
        BY <1>2, <1>9, <2>1, <2>3
    <2> QED
        BY <2>2, <2>3
<1>13. mangled \subseteq mangled'
    BY <1>2
<1>14. Orderly'
    <2>1. c \notin mangled' => Paired(b)
        <3> SUFFICES ASSUME c \notin mangled', NEW i \in 1..(Len(s) - k)
                     PROVE  /\ b[i].kind = "head" => i < Len(s) - k /\ b[i + 1].kind = "tail"
                            /\ b[i].kind = "tail" => i > 1 /\ b[i - 1].kind = "head"
            BY <1>6 DEF Paired
        <3>1. k + i \in 1..Len(s) /\ b[i] = s[k + i] /\ i \in Nat /\ k \in Nat
            BY <1>4, <1>6
        <3>2. b[i].kind = "head" => k + i < Len(s) /\ s[k + i + 1].kind = "tail"
            BY <1>7, <3>1 DEF Paired
        <3>3. b[i].kind = "tail" => s[k + i - 1].kind = "head"
            BY <1>7, <3>1 DEF Paired
        <3>4. b[i].kind = "tail" => i > 1
            <4>1. i = 1 => k + i - 1 = k
                BY <3>1
            <4> QED
                BY <1>7, <3>1, <3>3, <4>1
        <3>5. i > 1 => b[i - 1] = s[k + i - 1]
            <4>1. i > 1 => i - 1 \in 1..(Len(s) - k) /\ k + (i - 1) = k + i - 1
                BY <1>4, <3>1
            <4> QED
                BY <1>6, <4>1
        <3>6. k + i < Len(s) => i < Len(s) - k /\ b[i + 1] = s[k + i + 1]
            <4>1. k + i < Len(s) => i + 1 \in 1..(Len(s) - k) /\ k + (i + 1) = k + i + 1
                                    /\ i < Len(s) - k
                BY <1>4, <3>1
            <4> QED
                BY <1>6, <4>1
        <3> QED
            BY <3>2, <3>3, <3>4, <3>5, <3>6
    <2>2. \A d \in TestClients \ mangled' : Paired(responses'[d])
        BY <1>1, <1>9, <1>13, <2>1 DEF Orderly
    <2>3. \A d \in TestClients \ hasty' : Sorted(requests'[d])
        BY <1>1, <1>2 DEF Orderly
    <2> QED
        BY <2>2, <2>3 DEF Orderly
<1>15. \A i \in 1..(Len(s) - k) : i \in Where(b, Tellings) <=> k + i \in Where(s, Tellings)
    <2> TAKE i \in 1..(Len(s) - k)
    <2>1. k + i \in 1..Len(s) /\ b[i] = s[k + i] /\ i \in 1..Len(b)
        BY <1>4, <1>6
    <2> QED
        BY <2>1 DEF Where
<1>16. c \notin mangled' => \A i \in Where(s, Tellings) : i = 1 \/ i - k \in 1..(Len(s) - k)
    <2> SUFFICES ASSUME c \notin mangled', NEW i \in Where(s, Tellings), i # 1
                 PROVE  i - k \in 1..(Len(s) - k)
        OBVIOUS
    <2>1. i \in 1..Len(s) /\ s[i].kind # "tail"
        BY DEF Where, Tellings
    <2>2. ~(k = 2 /\ i = 2)
        BY <1>7, <2>1
    <2>3. k = 1 \/ k = 2
        BY <1>7
    <2> QED
        BY <1>4, <2>1, <2>2, <2>3
<1>17. ASSUME NEW d \in TestClients \ mangled', d \in asker
       PROVE  Knows(d)'
    <2>1. Knows(d)
        BY <1>1, <1>13, <1>17
    <2>2. CASE d # c
        BY <1>2, <1>9, <2>1, <2>2 DEF Knows
    <2>3. CASE d = c
        <3>1. Where(b, Tellings) = {} => code = m2c
            <4> SUFFICES ASSUME Where(b, Tellings) = {} PROVE code = m2c
                OBVIOUS
            <4>1. \A i \in Where(s, Tellings) : i = 1
                <5> SUFFICES ASSUME NEW i \in Where(s, Tellings), i # 1 PROVE FALSE
                    OBVIOUS
                <5>1. i - k \in 1..(Len(s) - k)
                    BY <1>16, <1>17, <2>3
                <5>2. i \in 1..Len(s)
                    BY DEF Where
                <5>3. k + (i - k) = i
                    BY <1>4, <5>2
                <5> QED
                    BY <1>15, <5>1, <5>3
            <4>2. CASE 1 \in Where(s, Tellings)
                <5>1. \A j \in Where(s, Tellings) : j <= 1
                    BY <4>1
                <5>2. s[1].code = m2c
                    BY <2>1, <2>3, <4>2, <5>1 DEF Knows
                <5> QED
                    BY <1>7, <1>17, <2>3, <4>2, <5>2
            <4>3. CASE 1 \notin Where(s, Tellings)
                <5>1. Where(s, Tellings) = {}
                    BY <4>1, <4>3
                <5>2. icode[c] = m2c
                    BY <2>1, <2>3, <5>1 DEF Knows
                <5> QED
                    BY <1>7, <1>17, <2>3, <4>3, <5>2
            <4> QED
                BY <4>2, <4>3
        <3>2. ASSUME NEW i \in Where(b, Tellings), \A j \in Where(b, Tellings) : j <= i
              PROVE  b[i].code = m2c
            <4>1. i \in 1..(Len(s) - k) /\ b[i] = s[k + i] /\ k + i \in Where(s, Tellings)
                BY <1>6, <1>15 DEF Where
            <4>2. ASSUME NEW j \in Where(s, Tellings) PROVE j <= k + i
                <5>1. j \in 1..Len(s)
                    BY DEF Where
                <5>2. CASE j = 1
                    BY <1>4, <4>1, <5>2
                <5>3. CASE j - k \in 1..(Len(s) - k)
                    <6>1. k + (j - k) = j
                        BY <1>4, <5>1
                    <6>2. j - k \in Where(b, Tellings)
                        BY <1>15, <5>3, <6>1
                    <6>3. j - k <= i
                        BY <3>2, <6>2
                    <6> QED
                        BY <1>4, <4>1, <5>1, <6>3
                <5> QED
                    BY <1>16, <1>17, <2>3, <5>2, <5>3
            <4> QED
                BY <2>1, <2>3, <4>1, <4>2 DEF Knows
        <3> QED
            BY <1>2, <1>9, <2>1, <2>3, <3>1, <3>2 DEF Knows
    <2> QED
        BY <2>2, <2>3
<1>18. (refused \subseteq hasty \cup mangled \cup overtaken)'
    <2>1. refused \subseteq hasty \cup mangled \cup overtaken
        BY DEF TestInv
    <2> QED
        BY <1>2, <1>13, <2>1
<1> QED
    BY <1>2, <1>11, <1>12, <1>14, <1>17, <1>18 DEF TestInv

LEMMA TestStep == TestInv /\ Test!Next => TestInv'
<1> SUFFICES ASSUME TestInv, Test!Next PROVE TestInv'
    OBVIOUS
<1>1. PICK c \in TestClients :
         \/ Test!send_mr(c) \/ Test!send_lr(c)
         \/ Test!handle_mobile_code_req(c) \/ Test!handle_login_req(c) \/ Test!event_cb(c)
         \/ \E k \in 1..Len(responses[c]) : Test!server_msg_cb(c, k)
    BY DEF Test!Next
<1>2. CASE Test!send_mr(c) \/ Test!send_lr(c)
    BY <1>2, SendMobileKeeps, SendLoginKeeps
<1>3. CASE Test!handle_mobile_code_req(c) \/ Test!handle_login_req(c)
    BY <1>3, MobileCodeKeeps, LoginKeeps
<1>4. CASE Test!event_cb(c)
    BY <1>4, EventCbKeeps
<1>5. CASE \E k \in 1..Len(responses[c]) : Test!server_msg_cb(c, k)
    BY <1>5, ServerMsgKeeps
<1> QED
    BY <1>1, <1>2, <1>3, <1>4, <1>5

-------------------------------------------------------------------------------
(* The semaphore programs                                                  *)

RelayTypes ==
    /\ program \in {"main.c", "mytest.c"} /\ sem1 \in Nat /\ sem2 \in Nat
    /\ buff \in {"text", "last"} /\ line \in {"text", "last"} /\ told \in BOOLEAN
    /\ mainpc \in {"read", "write", "post", "test", "join1", "join2", "done"}
    /\ pc1 \in {"wait", "post", "test", "done"} /\ pc2 \in {"wait", "test", "done"}

(* The last line stays in the buffer and has been posted, or will be.      *)
LastLine ==
    /\ buff = "last" <=> mainpc \in {"join1", "join2", "done"}
                           \/ (mainpc \in {"post", "test"} /\ line = "last")
    /\ mainpc \in {"post", "test"} => buff = line
    /\ buff = "last" /\ mainpc # "post" => pc1 # "wait" \/ sem1 > 0
    /\ told => buff = "last" /\ (pc2 # "wait" \/ sem2 > 0)

RelayInv ==
    /\ RelayTypes /\ LastLine
    /\ mainpc = "join2" => program = "mytest.c" /\ pc1 = "done"

LEMMA RelayInit == Relay!Init => RelayInv
<1> SUFFICES ASSUME Relay!Init PROVE RelayInv
    OBVIOUS
<1>1. RelayTypes
    BY DEF Relay!Init, RelayTypes
<1>2. LastLine
    BY DEF Relay!Init, LastLine
<1> QED
    BY <1>1, <1>2 DEF Relay!Init, RelayInv

LEMMA MainKeeps == RelayInv /\ (Relay!ReadLine \/ Relay!Main) => RelayInv'
<1> SUFFICES ASSUME RelayInv, Relay!ReadLine \/ Relay!Main PROVE RelayInv'
    OBVIOUS
<1> USE DEF RelayInv, RelayTypes, LastLine
<1>1. CASE Relay!ReadLine
    BY <1>1 DEF Relay!ReadLine
<1>2. CASE Relay!LineRead
    BY <1>2 DEF Relay!LineRead
<1>3. CASE Relay!PostLine
    BY <1>3 DEF Relay!PostLine
<1>4. CASE Relay!TestLine
    BY <1>4 DEF Relay!TestLine
<1>5. CASE Relay!Join
    BY <1>5 DEF Relay!Join
<1> QED
    BY <1>1, <1>2, <1>3, <1>4, <1>5 DEF Relay!Main

LEMMA FirstKeeps == RelayInv /\ Relay!First => RelayInv'
<1> SUFFICES ASSUME RelayInv, Relay!First PROVE RelayInv'
    OBVIOUS
<1> USE DEF RelayInv, RelayTypes, LastLine, Relay!mainVars
<1>1. CASE Relay!WaitFirst
    BY <1>1 DEF Relay!WaitFirst
<1>2. CASE Relay!PostSecond
    BY <1>2 DEF Relay!PostSecond
<1>3. CASE Relay!TestFirst
    BY <1>3 DEF Relay!TestFirst, Relay!Compared
<1> QED
    BY <1>1, <1>2, <1>3 DEF Relay!First

LEMMA SecondKeeps == RelayInv /\ Relay!Second => RelayInv'
<1> SUFFICES ASSUME RelayInv, Relay!Second PROVE RelayInv'
    OBVIOUS
<1> USE DEF RelayInv, RelayTypes, LastLine, Relay!mainVars
<1>1. CASE Relay!WaitSecond
    BY <1>1 DEF Relay!WaitSecond
<1>2. CASE Relay!TestSecond
    BY <1>2 DEF Relay!TestSecond, Relay!Compared
<1> QED
    BY <1>1, <1>2 DEF Relay!Second

LEMMA RelayStep == RelayInv /\ Relay!Next => RelayInv'
BY MainKeeps, FirstKeeps, SecondKeeps DEF Relay!Next

-------------------------------------------------------------------------------
(* Whichever program runs, it is as its invariant says.                    *)

EchoRuns == which = "echo" => EchoInv
WebRuns == which = "web" => WebInv
TestRuns == which = "clients" => TestInv
RelayRuns == which = "relay" => RelayInv
Runs == EchoRuns /\ WebRuns /\ TestRuns /\ RelayRuns

LEMMA Idles ==
    UNCHANGED vars => /\ EchoInv => EchoInv'
                      /\ WebInv => WebInv'
                      /\ TestInv => TestInv'
                      /\ RelayInv => RelayInv'
<1> SUFFICES ASSUME UNCHANGED vars
             PROVE  /\ EchoInv => EchoInv'
                    /\ WebInv => WebInv'
                    /\ TestInv => TestInv'
                    /\ RelayInv => RelayInv'
    OBVIOUS
<1>1. UNCHANGED <<server, link, error, inbox, outbox, pc, alive, ch, client, events,
                  ready, left, letter, mixed, spoilt, wrong, reset>>
    BY DEF vars, both, echoVars
<1>2. UNCHANGED <<server, link, error, inbox, outbox, pc, returned, revs, watched,
                  handler, name, asked, split, misfit>>
    BY DEF vars, both, webVars
<1>3. EchoInv => (EchoTypes /\ Slots /\ Reports /\ Dialogue)'
    BY <1>1 DEF EchoInv, EchoTypes, Slots, Reports, Dialogue, Clean, Hung
<1>4. EchoInv => (Places /\ Letters /\ Resets /\ Death)'
    BY <1>1 DEF EchoInv, Places, Letters, Spoilt, Resets, Death, Hung
<1>5. WebInv => (WebTypes /\ Arrivals /\ WebReports /\ Watching /\ WebEnds)'
    BY <1>2, ArrivalsStay, EndsStay DEF WebInv, WebTypes, WebReports, Watching
<1>6. WebInv => (server = "overrun" \/ WebDialogue)'
    BY <1>2, AloneStands DEF WebInv, WebDialogue
<1>7. UNCHANGED <<icode, m2c, requests, responses, unheard, mangled, hasty, asker,
                  refused, overtaken>>
    BY DEF vars, clientVars
<1>8. TestInv => (TestTypes /\ Counted /\ Orderly)'
    BY <1>7 DEF TestInv, TestTypes, Counted, Orderly
<1>9. TestInv => (\A c \in TestClients \ mangled : c \in asker => Knows(c))'
    BY <1>7 DEF TestInv, Knows
<1>10. TestInv => (refused \subseteq hasty \cup mangled \cup overtaken)'
    BY <1>7 DEF TestInv
<1>11. RelayInv => RelayInv'
    BY DEF vars, relayVars, RelayInv, RelayTypes, LastLine
<1> QED
    BY <1>3, <1>4, <1>5, <1>6, <1>8, <1>9, <1>10, <1>11 DEF EchoInv, WebInv, TestInv

LEMMA ProgramsInvariant == Spec => []Runs
<1>1. Init => Runs
    BY EchoInit, WebInit, TestInit, RelayInit
       DEF Init, Runs, EchoRuns, WebRuns, TestRuns, RelayRuns
<1>2. Runs /\ [Next]_vars => Runs'
    <2> SUFFICES ASSUME Runs, [Next]_vars PROVE Runs'
        OBVIOUS
    <2> USE DEF Runs, EchoRuns, WebRuns, TestRuns, RelayRuns
    <2>1. CASE Echoes(Echo!Next)
        BY <2>1, EchoStep DEF Echoes
    <2>2. CASE Serves(Web!Next)
        BY <2>2, WebStep DEF Serves
    <2>3. CASE Relays(Relay!Next)
        BY <2>3, RelayStep DEF Relays
    <2>4. CASE Asks(Test!Next)
        BY <2>4, TestStep DEF Asks
    <2>5. CASE UNCHANGED vars
        <3>1. which' = which
            BY <2>5 DEF vars
        <3> QED
            BY <2>5, <3>1, Idles
    <2> QED
        BY <2>1, <2>2, <2>3, <2>4, <2>5 DEF Next
<1> QED
    BY <1>1, <1>2, PTL DEF Spec

(* The poll server, with its one ch for all clients, answers a client      *)
(* wrongly only when it read another's character between reading and       *)
(* writing for it (poll/server.c:49, :107), and the select server, which   *)
(* answers at once, never does (select/server.c), however many clients     *)
(* there are and whichever of them are killed.                             *)
THEOREM RightCharacter == Spec => []WrongOnlyIfMixed
<1>1. Runs => WrongOnlyIfMixed
    BY DEF Runs, EchoRuns, WrongOnlyIfMixed, Echo!WrongOnlyIfMixed, EchoInv, Letters, Spoilt
<1> QED
    BY <1>1, ProgramsInvariant, PTL

(* A character that its client waits for an answer to is on the way, in ch *)
(* or sent back, never lost and never twice, and the descriptor is watched *)
(* for what comes next (poll/server.c:104, :108).                          *)
THEOREM CharacterInOnePlace == Spec => []OnePlace
<1>1. Runs => OnePlace
    BY FdsAre DEF Runs, EchoRuns, OnePlace, Echo!OnePlace, EchoInv, Places
<1> QED
    BY <1>1, ProgramsInvariant, PTL

(* The writes raise SIGPIPE, which nobody handles, only in the poll server *)
(* and only for a client killed before it read its reply: the poll server  *)
(* takes the failed read for a character (poll/server.c:88).               *)
THEOREM OnlyAResetKills == Spec => []DiesOnlyByReset
<1>1. Runs => DiesOnlyByReset
    BY DEF Runs, EchoRuns, DiesOnlyByReset, Echo!DiesOnlyByReset, EchoInv, Death
<1> QED
    BY <1>1, ProgramsInvariant, PTL

(* A browser none of whose requests TCP has cut, and whose forms fit into  *)
(* a ConnectStat, receives for each request the page that fits, with the   *)
(* name that it gave last (epoll_web_server.c:260), whatever the others    *)
(* send, forms that do not fit included.                                   *)
THEOREM FittingPages == Spec => []PagesFit
<1>1. Runs => PagesFit
    <2>1. \A c \in Web!Modest : Plain(c)
        BY DEF Web!Modest, Web!Sent, Plain, ShapesIn
    <2> QED
        BY <2>1 DEF Runs, WebRuns, PagesFit, Web!PagesFit, WebInv, WebEnds
<1> QED
    BY <1>1, ProgramsInvariant, PTL

(* SIGSEGV ends the web server only if stat_init did not return its        *)
(* pointer or TCP cut a request, SIGPIPE only if TCP cut a request, and    *)
(* memory beyond the fields of a ConnectStat is overwritten only by a form *)
(* of at least 132 bytes (epoll_web_server.c:261); a name that runs into   *)
(* the age ends nothing, and no handler is called that was not set         *)
(* (epoll_web_server.c:222, :255).                                         *)
THEOREM WebServerEnds == Spec => []EndsOnlyBy
<1>1. Runs => EndsOnlyBy
    <2>1. \A c : Web!Sent(c) = ShapesIn(asked[c])
        BY DEF Web!Sent, ShapesIn
    <2> QED
        BY <2>1 DEF Runs, WebRuns, EndsOnlyBy, Web!EndsOnlyBy, WebInv, WebEnds, Watching
<1> QED
    BY <1>1, ProgramsInvariant, PTL

(* A code is refused only to a client that did not wait for it, that read  *)
(* a response cut or together with another, of which it threw one away     *)
(* (client.cc:138), or whose number another client has asked a code for    *)
(* since (user_event_handler.cpp), however many clients there are.         *)
THEOREM RefusalsExplained == Spec => []RefusedForAReason
<1>1. Runs => RefusedForAReason
    BY DEF Runs, TestRuns, RefusedForAReason, Test!RefusedForAReason, TestInv
<1> QED
    BY <1>1, ProgramsInvariant, PTL

(* In both semaphore programs a thread that main joins has ended or can go *)
(* on, however the threads and fgets interleave, but for one case: in      *)
(* mytest.c the second thread may wait for a post of sem2 when the first   *)
(* thread's last post came before the last line (mytest.c:27).  main.c     *)
(* never hangs.                                                            *)
THEOREM OnlyTheUntoldHangs == Spec => [](which = "relay" => Relay!NobodyStuck)
<1>1. Runs => (which = "relay" => Relay!NobodyStuck)
    BY DEF Runs, RelayRuns, Relay!NobodyStuck, RelayInv, RelayTypes, LastLine
<1> QED
    BY <1>1, ProgramsInvariant, PTL
===============================================================================
