------------------------- MODULE PermissionsProofs -------------------------
(***************************************************************************)
(* Theorems about Permissions, for any accounts, permissions, scopes and   *)
(* caps: its types, that whatever is held has an owner, and that every     *)
(* place in a list of owners and every holder stays referenced.            *)
(***************************************************************************)
EXTENDS Permissions, TotalsProofs, FiniteSetTheorems, TLAPS

-----------------------------------------------------------------------------
(* What the methods write, for any state machine that calls them.          *)

Keys == PermissionIds \X Scopes

\* A key is named by its permission and scope.
LEMMA KeyFacts ==
    /\ \A p \in PermissionIds, scope \in Scopes : <<p, scope>> \in Keys
    /\ \A key \in Keys : /\ key[1] \in PermissionIds /\ key[2] \in Scopes
                         /\ key = <<key[1], key[2]>>
    /\ Unlimited \in Scopes
  BY DEF Keys, Scopes

\* The fields of the storage and their types.
LEMMA StorageFacts ==
    ASSUME NEW s \in Storage
    PROVE  /\ s.owners \in [Keys -> Seq(Accounts)]
           /\ s.modes \in [PermissionIds -> {Permit, Forbid, NoMode}]
           /\ s.held \subseteq Accounts \X Scopes \X PermissionIds
           /\ s.consumers \in [Accounts -> Nat]
           /\ s.providers \in [Accounts -> Nat]
  BY DEF Storage, Keys

-----------------------------------------------------------------------------
(* What the writes that the calls are made of leave of each field.         *)

\* One more reference to an account.
LEMMA IncConsumersFacts ==
    ASSUME NEW s \in Storage, NEW a \in Accounts
    PROVE  LET t == IncConsumers(s, a)
           IN  /\ t \in Storage
               /\ t.owners = s.owners /\ t.modes = s.modes /\ t.held = s.held
               /\ t.providers = s.providers
               /\ \A b \in Accounts : t.consumers[b] =
                     s.consumers[b] + (IF b = a THEN 1 ELSE 0)
  <1> DEFINE more == [s.consumers EXCEPT ![a] = s.consumers[a] + 1]
             t == IncConsumers(s, a)
  <1>1. t = [s EXCEPT !.consumers = more]
    BY DEF IncConsumers
  <1>2. s.consumers \in [Accounts -> Nat]
    BY StorageFacts
  <1>3. /\ more \in [Accounts -> Nat]
        /\ \A b \in Accounts : more[b] = s.consumers[b] + (IF b = a THEN 1 ELSE 0)
    BY <1>2
  <1> HIDE DEF more, t
  <1>4. t \in Storage
    BY <1>1, <1>3 DEF Storage
  <1>5. /\ t.owners = s.owners /\ t.modes = s.modes /\ t.held = s.held
        /\ t.providers = s.providers /\ t.consumers = more
    BY <1>1 DEF Storage
  <1> QED
    BY <1>3, <1>4, <1>5 DEF t

\* One reference fewer, where there is one (dec_consumers saturates).
LEMMA DecConsumersFacts ==
    ASSUME NEW s \in Storage, NEW a \in Accounts
    PROVE  LET t == DecConsumers(s, a)
           IN  /\ t \in Storage
               /\ t.owners = s.owners /\ t.modes = s.modes /\ t.held = s.held
               /\ t.providers = s.providers
               /\ \A b \in Accounts : t.consumers[b] =
                     IF b = a /\ s.consumers[b] > 0 THEN s.consumers[b] - 1
                     ELSE s.consumers[b]
  <1> DEFINE less == [s.consumers EXCEPT
                        ![a] = IF s.consumers[a] > 0 THEN s.consumers[a] - 1 ELSE 0]
             t == DecConsumers(s, a)
  <1>1. t = [s EXCEPT !.consumers = less]
    BY DEF DecConsumers
  <1>2. s.consumers \in [Accounts -> Nat]
    BY StorageFacts
  <1>3. /\ less \in [Accounts -> Nat]
        /\ \A b \in Accounts : less[b] = IF b = a /\ s.consumers[b] > 0
                                         THEN s.consumers[b] - 1 ELSE s.consumers[b]
    BY <1>2
  <1> HIDE DEF less, t
  <1>4. t \in Storage
    BY <1>1, <1>3 DEF Storage
  <1>5. /\ t.owners = s.owners /\ t.modes = s.modes /\ t.held = s.held
        /\ t.providers = s.providers /\ t.consumers = less
    BY <1>1 DEF Storage
  <1> QED
    BY <1>3, <1>4, <1>5 DEF t

\* One more entry of Permissions.
LEMMA HoldFacts ==
    ASSUME NEW s \in Storage, NEW a \in Accounts, NEW p \in PermissionIds,
           NEW scope \in Scopes
    PROVE  LET t == Hold(s, a, p, scope)
           IN  /\ t \in Storage
               /\ t.owners = s.owners /\ t.modes = s.modes
               /\ t.consumers = s.consumers /\ t.providers = s.providers
               /\ t.held = s.held \cup {<<a, scope, p>>}
  <1> DEFINE more == s.held \cup {<<a, scope, p>>}
             t == Hold(s, a, p, scope)
  <1>1. t = [s EXCEPT !.held = more]
    BY DEF Hold
  <1>2. more \subseteq Accounts \X Scopes \X PermissionIds
    BY StorageFacts
  <1> HIDE DEF more, t
  <1>3. t \in Storage
    BY <1>1, <1>2 DEF Storage
  <1>4. /\ t.owners = s.owners /\ t.modes = s.modes /\ t.held = more
        /\ t.consumers = s.consumers /\ t.providers = s.providers
    BY <1>1 DEF Storage
  <1> QED
    BY <1>3, <1>4 DEF t, more

\* One more place at the end of a list of owners.
LEMMA PushOwnerFacts ==
    ASSUME NEW s \in Storage, NEW a \in Accounts, NEW p \in PermissionIds,
           NEW scope \in Scopes
    PROVE  LET t == PushOwner(s, a, p, scope)
               key == <<p, scope>>
           IN  /\ t \in Storage
               /\ t.modes = s.modes /\ t.held = s.held
               /\ t.consumers = s.consumers /\ t.providers = s.providers
               /\ t.owners[key] = Append(s.owners[key], a)
               /\ \A k \in Keys \ {key} : t.owners[k] = s.owners[k]
  <1> DEFINE key == <<p, scope>>
             t == PushOwner(s, a, p, scope)
  <1>1. key \in Keys
    BY KeyFacts
  <1>2. t = [s EXCEPT !.owners = [s.owners EXCEPT ![key] = Append(s.owners[key], a)]]
    BY DEF PushOwner, Storage
  <1> HIDE DEF key, t
  <1>3. s.owners \in [Keys -> Seq(Accounts)]
    BY StorageFacts
  <1>4. Append(s.owners[key], a) \in Seq(Accounts)
    BY <1>1, <1>3
  <1>5. [s.owners EXCEPT ![key] = Append(s.owners[key], a)] \in [Keys -> Seq(Accounts)]
    BY <1>1, <1>3, <1>4
  <1>6. t \in Storage
    BY <1>2, <1>5 DEF Storage, Keys
  <1>7. /\ t.modes = s.modes /\ t.held = s.held
        /\ t.consumers = s.consumers /\ t.providers = s.providers
        /\ t.owners = [s.owners EXCEPT ![key] = Append(s.owners[key], a)]
    BY <1>2 DEF Storage
  <1> QED
    BY <1>1, <1>3, <1>6, <1>7 DEF key, t

\* An owner has a first place in the list.
LEMMA FirstSlotFacts ==
    ASSUME NEW s \in Storage, NEW who \in Accounts, NEW p \in PermissionIds,
           NEW scope \in Scopes, Owns(s, who, p, scope)
    PROVE  LET list == s.owners[<<p, scope>>]
               i == FirstSlot(s, who, p, scope)
           IN  i \in 1 .. Len(list) /\ list[i] = who
  <1> DEFINE list == s.owners[<<p, scope>>]
             places == {i \in DOMAIN list : list[i] = who}
  <1>1. list \in Seq(Accounts)
    BY StorageFacts, KeyFacts
  <1>2. DOMAIN list = 1 .. Len(list) /\ Len(list) \in Nat
    BY <1>1
  <1>3. places \in SUBSET Nat /\ places # {}
    <2>1. places # {}
      BY DEF Owns
    <2> HIDE DEF list
    <2>2. places \in SUBSET Nat
      BY <1>2
    <2> QED
      BY <2>1, <2>2
  <1>4. PICK x \in places : \A y \in places : x <= y
    BY <1>3, LeastElement
  <1>5. /\ x \in DOMAIN list /\ list[x] = who
        /\ \A j \in 1 .. (x - 1) : list[j] # who
    <2> SUFFICES ASSUME NEW j \in 1 .. (x - 1), list[j] = who PROVE FALSE
      BY <1>4
    <2>1. x \in 1 .. Len(list)
      BY <1>2, <1>4
    <2>2. j \in DOMAIN list /\ j < x
      BY <1>2, <2>1
    <2>3. x <= j
      BY <1>4, <2>2
    <2> QED
      BY <2>1, <2>2, <2>3
  <1>6. FirstSlot(s, who, p, scope) =
           CHOOSE i \in DOMAIN list :
              /\ list[i] = who
              /\ \A j \in 1 .. (i - 1) : list[j] # who
    BY DEF FirstSlot
  <1> HIDE DEF list
  <1>7. FirstSlot(s, who, p, scope) \in DOMAIN list
        /\ list[FirstSlot(s, who, p, scope)] = who
    BY <1>5, <1>6
  <1> QED
    BY <1>2, <1>7 DEF list

\* One place of the list goes from one account to another, and a reference with it.
LEMMA MoveSlotFacts ==
    ASSUME NEW s \in Storage, NEW who \in Accounts, NEW a \in Accounts,
           NEW p \in PermissionIds, NEW scope \in Scopes, Owns(s, who, p, scope)
    PROVE  LET t == MoveSlot(s, who, a, p, scope)
               key == <<p, scope>>
               i == FirstSlot(s, who, p, scope)
           IN  /\ t \in Storage
               /\ t.modes = s.modes /\ t.held = s.held /\ t.providers = s.providers
               /\ i \in 1 .. Len(s.owners[key]) /\ s.owners[key][i] = who
               /\ t.owners[key] = [s.owners[key] EXCEPT ![i] = a]
               /\ \A k \in Keys \ {key} : t.owners[k] = s.owners[k]
               /\ \A b \in Accounts : t.consumers[b] =
                     IF b = who /\ s.consumers[b] > 0 THEN s.consumers[b] - 1
                     ELSE s.consumers[b]
  <1> DEFINE key == <<p, scope>>
             i == FirstSlot(s, who, p, scope)
             list == [s.owners[key] EXCEPT ![i] = a]
             lists == [s.owners EXCEPT ![key] = list]
             u == [s EXCEPT !.owners = lists]
  <1>1. key \in Keys /\ s.owners \in [Keys -> Seq(Accounts)]
    BY KeyFacts, StorageFacts
  <1>2. i \in 1 .. Len(s.owners[key]) /\ s.owners[key][i] = who
    BY FirstSlotFacts
  <1>3. MoveSlot(s, who, a, p, scope) = DecConsumers(u, who)
    BY DEF MoveSlot
  <1> HIDE DEF key, i
  <1>4. list \in Seq(Accounts)
    BY <1>1, <1>2
  <1> HIDE DEF list
  <1>5. /\ lists \in [Keys -> Seq(Accounts)]
        /\ lists[key] = list /\ \A k \in Keys \ {key} : lists[k] = s.owners[k]
    BY <1>1, <1>4
  <1> HIDE DEF lists
  <1>6. u \in Storage
    BY <1>5 DEF Storage, Keys
  <1>7. /\ u.owners = lists /\ u.modes = s.modes /\ u.held = s.held
        /\ u.providers = s.providers /\ u.consumers = s.consumers
    BY DEF Storage
  <1> HIDE DEF u
  <1> DEFINE t == DecConsumers(u, who)
  <1>8. /\ t \in Storage
        /\ t.owners = u.owners /\ t.modes = u.modes /\ t.held = u.held
        /\ t.providers = u.providers
        /\ \A b \in Accounts : t.consumers[b] =
              IF b = who /\ u.consumers[b] > 0 THEN u.consumers[b] - 1
              ELSE u.consumers[b]
    BY <1>6, DecConsumersFacts
  <1> HIDE DEF t
  <1>9. /\ t \in Storage
        /\ t.modes = s.modes /\ t.held = s.held /\ t.providers = s.providers
        /\ i \in 1 .. Len(s.owners[key]) /\ s.owners[key][i] = who
        /\ t.owners[key] = list
        /\ \A k \in Keys \ {key} : t.owners[k] = s.owners[k]
        /\ \A b \in Accounts : t.consumers[b] =
              IF b = who /\ s.consumers[b] > 0 THEN s.consumers[b] - 1
              ELSE s.consumers[b]
    BY <1>2, <1>5, <1>7, <1>8
  <1> QED
    BY <1>3, <1>9 DEF key, i, list, t

\* What create_permission writes before the owner and the holder.
LEMMA SetModeFacts ==
    ASSUME NEW s \in Storage, NEW p \in PermissionIds, NEW mode \in {Permit, Forbid}
    PROVE  LET t == [s EXCEPT !.modes[p] = mode]
           IN  /\ t \in Storage
               /\ t.owners = s.owners /\ t.held = s.held
               /\ t.consumers = s.consumers /\ t.providers = s.providers
               /\ t.modes[p] = mode
               /\ \A q \in PermissionIds \ {p} : t.modes[q] = s.modes[q]
  <1> DEFINE modes == [s.modes EXCEPT ![p] = mode]
             t == [s EXCEPT !.modes = modes]
  <1>1. [s EXCEPT !.modes[p] = mode] = t
    OBVIOUS
  <1>2. /\ modes \in [PermissionIds -> {Permit, Forbid, NoMode}]
        /\ modes[p] = mode /\ \A q \in PermissionIds \ {p} : modes[q] = s.modes[q]
    BY StorageFacts
  <1> HIDE DEF modes
  <1>3. t \in Storage
    BY <1>2 DEF Storage
  <1>4. /\ t.owners = s.owners /\ t.held = s.held /\ t.modes = modes
        /\ t.consumers = s.consumers /\ t.providers = s.providers
    BY DEF Storage
  <1> HIDE DEF t
  <1> QED
    BY <1>1, <1>2, <1>3, <1>4

\* An account gains a provider, or loses one it has.
LEMMA ProviderFacts ==
    ASSUME NEW s \in Storage, NEW a \in Accounts, NEW n \in Nat
    PROVE  LET t == [s EXCEPT !.providers[a] = n]
           IN  /\ t \in Storage
               /\ t.owners = s.owners /\ t.modes = s.modes /\ t.held = s.held
               /\ t.consumers = s.consumers
               /\ t.providers[a] = n
               /\ \A b \in Accounts \ {a} : t.providers[b] = s.providers[b]
  <1> DEFINE counts == [s.providers EXCEPT ![a] = n]
             t == [s EXCEPT !.providers = counts]
  <1>1. [s EXCEPT !.providers[a] = n] = t
    OBVIOUS
  <1>2. /\ counts \in [Accounts -> Nat]
        /\ counts[a] = n /\ \A b \in Accounts \ {a} : counts[b] = s.providers[b]
    BY StorageFacts
  <1> HIDE DEF counts
  <1>3. t \in Storage
    BY <1>2 DEF Storage
  <1>4. /\ t.owners = s.owners /\ t.modes = s.modes /\ t.held = s.held
        /\ t.providers = counts /\ t.consumers = s.consumers
    BY DEF Storage
  <1> HIDE DEF t
  <1> QED
    BY <1>1, <1>2, <1>3, <1>4

-----------------------------------------------------------------------------
(* Calls that only hand out.                                               *)

\* From s to t nothing but the entries new is handed out, no owner and no reference
\* is lost, and references are counted for accounts that exist.
Adds(s, t, new) ==
    /\ t \in Storage
    /\ t.providers = s.providers /\ t.modes = s.modes
    /\ \A a \in Accounts : /\ t.consumers[a] >= s.consumers[a]
                           /\ t.consumers[a] > s.consumers[a] => s.providers[a] > 0
    /\ \A o \in Accounts, p \in PermissionIds, scope \in Scopes :
          Owns(s, o, p, scope) => Owns(t, o, p, scope)
    /\ s.held \subseteq t.held /\ t.held \subseteq s.held \cup new

\* To write nothing adds nothing.
LEMMA AddsNothing ==
    ASSUME NEW s \in Storage, NEW new
    PROVE  Adds(s, s, new)
  <1>1. \A a \in Accounts : s.consumers[a] \in Nat
    BY StorageFacts
  <1> QED
    BY <1>1 DEF Adds

\* More may be handed out than was.
LEMMA AddsMore ==
    ASSUME NEW s, NEW t, NEW new, NEW more, Adds(s, t, new), new \subseteq more
    PROVE  Adds(s, t, more)
  BY DEF Adds

\* One call after the other.
LEMMA AddsThenAdds ==
    ASSUME NEW s \in Storage, NEW t, NEW u, NEW new, Adds(s, t, new), Adds(t, u, new)
    PROVE  Adds(s, u, new)
  <1>1. /\ t \in Storage /\ u \in Storage
        /\ u.providers = s.providers /\ u.modes = s.modes
        /\ s.held \subseteq u.held /\ u.held \subseteq s.held \cup new
    BY DEF Adds
  <1>2. \A a \in Accounts : /\ u.consumers[a] >= s.consumers[a]
                            /\ u.consumers[a] > s.consumers[a] => s.providers[a] > 0
    <2> SUFFICES ASSUME NEW a \in Accounts
                 PROVE  /\ u.consumers[a] >= s.consumers[a]
                        /\ u.consumers[a] > s.consumers[a] => s.providers[a] > 0
      OBVIOUS
    <2>1. /\ s.consumers[a] \in Nat /\ t.consumers[a] \in Nat /\ u.consumers[a] \in Nat
      BY <1>1, StorageFacts
    <2>2. /\ t.consumers[a] >= s.consumers[a] /\ u.consumers[a] >= t.consumers[a]
          /\ t.consumers[a] > s.consumers[a] => s.providers[a] > 0
          /\ u.consumers[a] > t.consumers[a] => t.providers[a] > 0
          /\ t.providers = s.providers
      BY DEF Adds
    <2> QED
      BY <2>1, <2>2
  <1>3. \A o \in Accounts, p \in PermissionIds, scope \in Scopes :
           Owns(s, o, p, scope) => Owns(u, o, p, scope)
    BY DEF Adds
  <1> QED
    BY <1>1, <1>2, <1>3 DEF Adds

\* A reference to an account that exists.
LEMMA IncConsumersAdds ==
    ASSUME NEW s \in Storage, NEW a \in Accounts, NEW new, CanIncConsumers(s, a)
    PROVE  /\ Adds(s, IncConsumers(s, a), new)
           /\ IncConsumers(s, a).consumers[a] > 0
  <1> DEFINE t == IncConsumers(s, a)
  <1>1. /\ t \in Storage
        /\ t.owners = s.owners /\ t.modes = s.modes /\ t.held = s.held
        /\ t.providers = s.providers
        /\ \A b \in Accounts : t.consumers[b] =
              s.consumers[b] + (IF b = a THEN 1 ELSE 0)
    BY IncConsumersFacts
  <1>2. \A b \in Accounts : s.consumers[b] \in Nat
    BY StorageFacts
  <1> HIDE DEF t
  <1>3. \A b \in Accounts : /\ t.consumers[b] >= s.consumers[b]
                            /\ t.consumers[b] > s.consumers[b] => s.providers[b] > 0
    BY <1>1, <1>2 DEF CanIncConsumers
  <1>4. t.consumers[a] > 0
    BY <1>1, <1>2
  <1>5. \A o \in Accounts, p \in PermissionIds, scope \in Scopes :
           Owns(s, o, p, scope) => Owns(t, o, p, scope)
    BY <1>1 DEF Owns
  <1> QED
    BY <1>1, <1>3, <1>4, <1>5 DEF Adds, t

\* An entry of Permissions, with a reference if it is the account's first.
LEMMA HoldCountedAdds ==
    ASSUME NEW s \in Storage, NEW a \in Accounts, NEW p \in PermissionIds,
           NEW scope \in Scopes
    PROVE  LET r == HoldCounted(s, a, p, scope)
           IN  /\ Adds(s, r.st, {<<a, scope, p>>})
               /\ r.ok => <<a, scope, p>> \in r.st.held
  <1> DEFINE r == HoldCounted(s, a, p, scope)
             new == {<<a, scope, p>>}
  <1>1. ASSUME NEW t \in Storage
        PROVE  Adds(t, Hold(t, a, p, scope), new) /\ <<a, scope, p>> \in Hold(t, a, p, scope).held
    <2> DEFINE u == Hold(t, a, p, scope)
    <2>1. /\ u \in Storage
          /\ u.owners = t.owners /\ u.modes = t.modes
          /\ u.consumers = t.consumers /\ u.providers = t.providers
          /\ u.held = t.held \cup {<<a, scope, p>>}
      BY HoldFacts
    <2>2. \A b \in Accounts : t.consumers[b] \in Nat
      BY StorageFacts
    <2> HIDE DEF u
    <2>3. \A o \in Accounts, q \in PermissionIds, z \in Scopes :
             Owns(t, o, q, z) => Owns(u, o, q, z)
      BY <2>1 DEF Owns
    <2>4. \A b \in Accounts : /\ u.consumers[b] >= t.consumers[b]
                              /\ u.consumers[b] > t.consumers[b] => t.providers[b] > 0
      BY <2>1, <2>2
    <2> QED
      BY <2>1, <2>3, <2>4 DEF Adds, u
  <1>2. CASE HoldsAny(s, a)
    <2>1. r.st = Hold(s, a, p, scope)
      BY <1>2 DEF HoldCounted, Ok
    <2> HIDE DEF r
    <2> QED
      BY <1>1, <2>1 DEF r
  <1>3. CASE ~HoldsAny(s, a) /\ CanIncConsumers(s, a)
    <2> DEFINE t == IncConsumers(s, a)
    <2>1. r.st = Hold(t, a, p, scope)
      BY <1>3 DEF HoldCounted, Ok
    <2>2. Adds(s, t, new) /\ t \in Storage
      BY <1>3, IncConsumersAdds, IncConsumersFacts
    <2> HIDE DEF r, t, new
    <2>3. Adds(t, r.st, new) /\ <<a, scope, p>> \in r.st.held
      BY <1>1, <2>1, <2>2
    <2>4. Adds(s, r.st, new)
      BY <2>2, <2>3, AddsThenAdds
    <2> QED
      BY <2>3, <2>4 DEF r, new
  <1>4. CASE ~HoldsAny(s, a) /\ ~CanIncConsumers(s, a)
    <2>1. r.st = s /\ ~r.ok
      BY <1>4 DEF HoldCounted, Failed
    <2> QED
      BY <2>1, AddsNothing
  <1> QED
    BY <1>2, <1>3, <1>4

\* One more owner.
LEMMA PushOwnerAdds ==
    ASSUME NEW s \in Storage, NEW a \in Accounts, NEW p \in PermissionIds,
           NEW scope \in Scopes, NEW new
    PROVE  /\ Adds(s, PushOwner(s, a, p, scope), new)
           /\ Owns(PushOwner(s, a, p, scope), a, p, scope)
  <1> DEFINE t == PushOwner(s, a, p, scope)
             key == <<p, scope>>
             list == s.owners[key]
  <1>1. /\ t \in Storage
        /\ t.modes = s.modes /\ t.held = s.held
        /\ t.consumers = s.consumers /\ t.providers = s.providers
        /\ t.owners[key] = Append(s.owners[key], a)
        /\ \A k \in Keys \ {key} : t.owners[k] = s.owners[k]
    BY PushOwnerFacts
  <1>2. key \in Keys /\ list \in Seq(Accounts)
    BY StorageFacts, KeyFacts
  <1>3. \A b \in Accounts : s.consumers[b] \in Nat
    BY StorageFacts
  <1>4. t.owners[key] = Append(list, a)
    BY <1>1
  <1> HIDE DEF t, list
  <1>5. /\ DOMAIN list = 1 .. Len(list) /\ Len(list) \in Nat
        /\ DOMAIN Append(list, a) = 1 .. (Len(list) + 1)
        /\ Append(list, a)[Len(list) + 1] = a
        /\ \A i \in 1 .. Len(list) : Append(list, a)[i] = list[i]
    BY <1>2
  <1>6. Owns(t, a, p, scope)
    <2>1. Len(list) + 1 \in DOMAIN t.owners[key] /\ t.owners[key][Len(list) + 1] = a
      BY <1>4, <1>5
    <2> QED
      BY <2>1 DEF Owns
  <1>7. ASSUME NEW o \in Accounts, NEW q \in PermissionIds, NEW z \in Scopes,
               Owns(s, o, q, z)
        PROVE  Owns(t, o, q, z)
    <2> DEFINE k == <<q, z>>
    <2>1. k \in Keys
      BY KeyFacts
    <2>2. PICK i \in DOMAIN s.owners[k] : s.owners[k][i] = o
      BY <1>7 DEF Owns
    <2>3. i \in DOMAIN t.owners[k] /\ t.owners[k][i] = o
      <3> HIDE DEF k, key
      <3>1. CASE k # key
        BY <1>1, <2>1, <2>2, <3>1
      <3>2. CASE k = key
        <4>1. i \in 1 .. Len(list) /\ list[i] = o
          BY <1>5, <2>2, <3>2 DEF list
        <4> QED
          BY <1>4, <1>5, <3>2, <4>1
      <3> QED
        BY <3>1, <3>2
    <2> QED
      BY <2>3 DEF Owns
  <1>8. \A b \in Accounts : /\ t.consumers[b] >= s.consumers[b]
                            /\ t.consumers[b] > s.consumers[b] => s.providers[b] > 0
    BY <1>1, <1>3
  <1>9. Adds(s, t, new)
    BY <1>1, <1>7, <1>8 DEF Adds
  <1> QED
    BY <1>6, <1>9 DEF t

\* grant_permission_with_scope hands out the one entry that it is asked for.
LEMMA GrantAdds ==
    ASSUME NEW s \in Storage, NEW who \in Accounts, NEW a \in Accounts,
           NEW p \in PermissionIds, NEW scope \in Scopes
    PROVE  LET r == GrantPermission(s, who, a, p, scope)
           IN  /\ Adds(s, r.st, {<<a, scope, p>>})
               /\ r.ok => <<a, scope, p>> \in r.st.held
  <1> DEFINE owned == Owns(s, who, p, scope) \/ Owns(s, who, p, Unlimited)
  <1>1. CASE owned
    BY <1>1, HoldCountedAdds DEF GrantPermission
  <1>2. CASE ~owned
    BY <1>2, AddsNothing DEF GrantPermission, Failed
  <1> QED
    BY <1>1, <1>2

\* assign_permission makes an owner and, of what permits, a holder.
LEMMA AssignAdds ==
    ASSUME NEW s \in Storage, NEW owner \in Accounts, NEW holder \in Accounts,
           NEW p \in PermissionIds, NEW scope \in Scopes
    PROVE  LET r == AssignPermission(s, owner, holder, p, scope)
           IN  /\ Adds(s, r.st, {<<holder, scope, p>>})
               /\ r.ok => Owns(r.st, owner, p, scope)
               /\ r.ok /\ s.modes[p] = Permit => <<holder, scope, p>> \in r.st.held
  <1> DEFINE r == AssignPermission(s, owner, holder, p, scope)
             new == {<<holder, scope, p>>}
             counted == IncConsumers(s, owner)
             owned == IF ~Owns(s, owner, p, scope) THEN PushOwner(counted, owner, p, scope)
                      ELSE counted
             granted == HoldCounted(owned, holder, p, scope)
  <1>1. CASE s.modes[p] = NoMode \/ ~CanIncConsumers(s, owner)
    <2>1. r.st = s /\ ~r.ok
      BY <1>1 DEF AssignPermission, Failed
    <2> QED
      BY <2>1, AddsNothing
  <1>2. CASE ~(s.modes[p] = NoMode \/ ~CanIncConsumers(s, owner))
    <2>1. Adds(s, counted, new) /\ counted \in Storage
      BY <1>2, IncConsumersAdds, IncConsumersFacts
    <2>2. /\ r.st = IF s.modes[p] = Permit THEN granted.st ELSE owned
          /\ r.ok => (s.modes[p] = Permit => granted.ok)
      BY <1>2 DEF AssignPermission, Ok
    <2> HIDE DEF counted, new, r
    <2>3. Adds(counted, owned, new) /\ Owns(owned, owner, p, scope)
      <3>1. CASE Owns(s, owner, p, scope)
        BY <2>1, <3>1, AddsNothing DEF Adds
      <3>2. CASE ~Owns(s, owner, p, scope)
        BY <2>1, <3>2, PushOwnerAdds
      <3> QED
        BY <3>1, <3>2
    <2>4. Adds(s, owned, new) /\ owned \in Storage
      <3> HIDE DEF owned
      <3>1. Adds(s, owned, new)
        BY <2>1, <2>3, AddsThenAdds
      <3> QED
        BY <3>1 DEF Adds
    <2> HIDE DEF owned
    <2>5. /\ Adds(owned, granted.st, new)
          /\ granted.ok => <<holder, scope, p>> \in granted.st.held
      BY <2>4, HoldCountedAdds DEF new
    <2> HIDE DEF granted
    <2>6. Adds(s, granted.st, new)
      BY <2>4, <2>5, AddsThenAdds
    <2>7. Owns(granted.st, owner, p, scope)
      BY <2>3, <2>5 DEF Adds
    <2>8. CASE s.modes[p] = Permit
      <3>1. r.st = granted.st /\ (r.ok => granted.ok)
        BY <2>2, <2>8
      <3> QED
        BY <2>5, <2>6, <2>7, <3>1 DEF r, new
    <2>9. CASE s.modes[p] # Permit
      <3>1. r.st = owned
        BY <2>2, <2>9
      <3> QED
        BY <2>3, <2>4, <2>9, <3>1 DEF r, new
    <2> QED
      BY <2>8, <2>9
  <1> QED
    BY <1>1, <1>2

-----------------------------------------------------------------------------
(* The inductive invariant, and that every write keeps it.                 *)

\* Somebody owns p in the scope or in Unlimited.
HasOwner(s, scope, p) == s.owners[<<p, scope>>] # <<>> \/ s.owners[<<p, Unlimited>>] # <<>>

Good(s) ==
    /\ s \in Storage
    /\ \A a \in Accounts : s.consumers[a] > 0 => s.providers[a] > 0
    /\ \A key \in Keys : s.owners[key] # <<>> => s.modes[key[1]] # NoMode
    /\ \A h \in s.held : HasOwner(s, h[2], h[3])

\* A list of owners is nonempty exactly when an account owns the permission.
LEMMA OwnersAreAccounts ==
    ASSUME NEW s \in Storage, NEW p \in PermissionIds, NEW scope \in Scopes
    PROVE  s.owners[<<p, scope>>] # <<>> <=> \E o \in Accounts : Owns(s, o, p, scope)
  <1> DEFINE list == s.owners[<<p, scope>>]
  <1>1. list \in Seq(Accounts)
    BY StorageFacts, KeyFacts
  <1> HIDE DEF list
  <1>2. list # <<>> => 1 \in DOMAIN list /\ list[1] \in Accounts
    BY <1>1
  <1>3. \A i \in DOMAIN list : list # <<>>
    BY <1>1
  <1>4. \A o : Owns(s, o, p, scope) <=> \E i \in DOMAIN list : list[i] = o
    BY DEF Owns, list
  <1>5. list # <<>> <=> \E o \in Accounts : Owns(s, o, p, scope)
    BY <1>2, <1>3, <1>4
  <1> QED
    BY <1>5 DEF list

\* A reference is counted for an account that exists.
LEMMA IncConsumersKeeps ==
    ASSUME NEW s, Good(s), NEW a \in Accounts, CanIncConsumers(s, a)
    PROVE  Good(IncConsumers(s, a))
  <1> DEFINE t == IncConsumers(s, a)
  <1>1. s \in Storage /\ s.consumers \in [Accounts -> Nat]
    BY StorageFacts DEF Good
  <1>2. /\ t \in Storage
        /\ t.owners = s.owners /\ t.modes = s.modes /\ t.held = s.held
        /\ t.providers = s.providers
        /\ \A b \in Accounts : t.consumers[b] =
              s.consumers[b] + (IF b = a THEN 1 ELSE 0)
    BY <1>1, IncConsumersFacts
  <1> HIDE DEF t
  <1>3. \A b \in Accounts : t.consumers[b] > 0 => t.providers[b] > 0
    BY <1>1, <1>2 DEF Good, CanIncConsumers
  <1>4. /\ \A key \in Keys : t.owners[key] # <<>> => t.modes[key[1]] # NoMode
        /\ \A h \in t.held : HasOwner(t, h[2], h[3])
    BY <1>2 DEF Good, HasOwner
  <1> QED
    BY <1>2, <1>3, <1>4 DEF Good, t

\* What has an owner may be held.
LEMMA HoldKeeps ==
    ASSUME NEW s, Good(s), NEW a \in Accounts, NEW p \in PermissionIds,
           NEW scope \in Scopes, HasOwner(s, scope, p)
    PROVE  Good(Hold(s, a, p, scope))
  <1> DEFINE t == Hold(s, a, p, scope)
  <1>1. s \in Storage
    BY DEF Good
  <1>2. /\ t \in Storage
        /\ t.owners = s.owners /\ t.modes = s.modes
        /\ t.consumers = s.consumers /\ t.providers = s.providers
        /\ t.held = s.held \cup {<<a, scope, p>>}
    BY <1>1, HoldFacts
  <1> HIDE DEF t
  <1>3. \A h \in t.held : HasOwner(t, h[2], h[3])
    <2>1. ASSUME NEW h \in s.held
          PROVE  HasOwner(t, h[2], h[3])
      BY <1>2 DEF Good, HasOwner
    <2>2. HasOwner(t, scope, p)
      BY <1>2 DEF HasOwner
    <2> QED
      BY <1>2, <2>1, <2>2
  <1> QED
    BY <1>2, <1>3 DEF Good, t

\* So it is with a reference for the holder.
LEMMA HoldCountedKeeps ==
    ASSUME NEW s, Good(s), NEW a \in Accounts, NEW p \in PermissionIds,
           NEW scope \in Scopes, HasOwner(s, scope, p)
    PROVE  Good(HoldCounted(s, a, p, scope).st)
  <1>1. CASE HoldsAny(s, a)
    BY <1>1, HoldKeeps DEF HoldCounted, Ok
  <1>2. CASE ~HoldsAny(s, a) /\ CanIncConsumers(s, a)
    <2> DEFINE t == IncConsumers(s, a)
    <2>1. Good(t)
      BY <1>2, IncConsumersKeeps
    <2>2. HasOwner(t, scope, p)
      BY IncConsumersFacts DEF Good, HasOwner
    <2>3. HoldCounted(s, a, p, scope).st = Hold(t, a, p, scope)
      BY <1>2 DEF HoldCounted, Ok
    <2> HIDE DEF t
    <2> QED
      BY <2>1, <2>2, <2>3, HoldKeeps
  <1>3. CASE ~HoldsAny(s, a) /\ ~CanIncConsumers(s, a)
    BY <1>3 DEF HoldCounted, Failed
  <1> QED
    BY <1>1, <1>2, <1>3

\* A permission with a mode may get an owner.
LEMMA PushOwnerKeeps ==
    ASSUME NEW s, Good(s), NEW a \in Accounts, NEW p \in PermissionIds,
           NEW scope \in Scopes, s.modes[p] # NoMode
    PROVE  Good(PushOwner(s, a, p, scope)) /\ HasOwner(PushOwner(s, a, p, scope), scope, p)
  <1> DEFINE t == PushOwner(s, a, p, scope)
             key == <<p, scope>>
  <1>1. s \in Storage /\ s.owners \in [Keys -> Seq(Accounts)] /\ key \in Keys
    BY StorageFacts, KeyFacts DEF Good
  <1>2. /\ t \in Storage
        /\ t.modes = s.modes /\ t.held = s.held
        /\ t.consumers = s.consumers /\ t.providers = s.providers
        /\ t.owners[key] = Append(s.owners[key], a)
        /\ \A k \in Keys \ {key} : t.owners[k] = s.owners[k]
    BY <1>1, PushOwnerFacts
  <1>3. key[1] = p
    OBVIOUS
  <1> HIDE DEF t, key
  <1>4. t.owners[key] # <<>>
    BY <1>1, <1>2
  <1>5. \A k \in Keys : t.owners[k] # <<>> => t.modes[k[1]] # NoMode
    BY <1>2, <1>3 DEF Good
  <1>6. \A k \in Keys : s.owners[k] # <<>> => t.owners[k] # <<>>
    BY <1>2, <1>4
  <1>7. \A h \in t.held : HasOwner(t, h[2], h[3])
    <2> SUFFICES ASSUME NEW h \in s.held PROVE HasOwner(t, h[2], h[3])
      BY <1>2
    <2>1. <<h[3], h[2]>> \in Keys /\ <<h[3], Unlimited>> \in Keys
      BY <1>1, StorageFacts, KeyFacts
    <2>2. HasOwner(s, h[2], h[3])
      BY DEF Good
    <2> QED
      BY <2>1, <2>2, <1>6 DEF HasOwner
  <1>8. Good(t)
    BY <1>2, <1>5, <1>7 DEF Good
  <1>9. HasOwner(t, scope, p)
    BY <1>4 DEF HasOwner, key
  <1> QED
    BY <1>8, <1>9 DEF t

\* An owner hands its place to another account.
LEMMA MoveSlotKeeps ==
    ASSUME NEW s, Good(s), NEW who \in Accounts, NEW a \in Accounts,
           NEW p \in PermissionIds, NEW scope \in Scopes, Owns(s, who, p, scope)
    PROVE  Good(MoveSlot(s, who, a, p, scope))
  <1> DEFINE t == MoveSlot(s, who, a, p, scope)
             key == <<p, scope>>
             i == FirstSlot(s, who, p, scope)
  <1>1. /\ s \in Storage /\ s.owners \in [Keys -> Seq(Accounts)] /\ key \in Keys
        /\ s.consumers \in [Accounts -> Nat]
    BY StorageFacts, KeyFacts DEF Good
  <1>2. /\ t \in Storage
        /\ t.modes = s.modes /\ t.held = s.held /\ t.providers = s.providers
        /\ i \in 1 .. Len(s.owners[key]) /\ s.owners[key][i] = who
        /\ t.owners[key] = [s.owners[key] EXCEPT ![i] = a]
        /\ \A k \in Keys \ {key} : t.owners[k] = s.owners[k]
        /\ \A b \in Accounts : t.consumers[b] =
              IF b = who /\ s.consumers[b] > 0 THEN s.consumers[b] - 1
              ELSE s.consumers[b]
    BY <1>1, MoveSlotFacts
  <1> HIDE DEF t, key, i
  <1>3. s.owners[key] # <<>> /\ t.owners[key] # <<>>
    <2> DEFINE list == s.owners[key]
    <2>1. list \in Seq(Accounts) /\ i \in 1 .. Len(list)
      BY <1>1, <1>2
    <2> HIDE DEF list
    <2>2. list # <<>> /\ Len([list EXCEPT ![i] = a]) = Len(list)
      BY <2>1
    <2>3. [list EXCEPT ![i] = a] \in Seq(Accounts)
      BY <2>1
    <2>4. [list EXCEPT ![i] = a] # <<>>
      BY <2>1, <2>2, <2>3
    <2> QED
      BY <1>2, <2>2, <2>4 DEF list
  <1>4. \A k \in Keys : s.owners[k] # <<>> <=> t.owners[k] # <<>>
    BY <1>2, <1>3
  <1>5. \A b \in Accounts : t.consumers[b] > 0 => t.providers[b] > 0
    BY <1>1, <1>2 DEF Good
  <1>6. \A k \in Keys : t.owners[k] # <<>> => t.modes[k[1]] # NoMode
    BY <1>2, <1>4 DEF Good
  <1>7. \A h \in t.held : HasOwner(t, h[2], h[3])
    <2> SUFFICES ASSUME NEW h \in s.held PROVE HasOwner(t, h[2], h[3])
      BY <1>2
    <2>1. <<h[3], h[2]>> \in Keys /\ <<h[3], Unlimited>> \in Keys
      BY <1>1, StorageFacts, KeyFacts
    <2>2. HasOwner(s, h[2], h[3])
      BY DEF Good
    <2> QED
      BY <2>1, <2>2, <1>4 DEF HasOwner
  <1> QED
    BY <1>2, <1>5, <1>6, <1>7 DEF Good, t

\* A permission gets a mode.
LEMMA SetModeKeeps ==
    ASSUME NEW s, Good(s), NEW p \in PermissionIds, NEW mode \in {Permit, Forbid}
    PROVE  Good([s EXCEPT !.modes[p] = mode])
  <1> DEFINE t == [s EXCEPT !.modes[p] = mode]
  <1>1. s \in Storage
    BY DEF Good
  <1>2. /\ t \in Storage
        /\ t.owners = s.owners /\ t.held = s.held
        /\ t.consumers = s.consumers /\ t.providers = s.providers
        /\ t.modes[p] = mode
        /\ \A q \in PermissionIds \ {p} : t.modes[q] = s.modes[q]
    BY <1>1, SetModeFacts
  <1> HIDE DEF t
  <1>3. \A k \in Keys : t.owners[k] # <<>> => t.modes[k[1]] # NoMode
    <2> SUFFICES ASSUME NEW k \in Keys, s.owners[k] # <<>> PROVE t.modes[k[1]] # NoMode
      BY <1>2
    <2>1. k[1] \in PermissionIds
      BY KeyFacts
    <2> QED
      BY <1>2, <2>1, ModeAssumption DEF Good
  <1>4. \A h \in t.held : HasOwner(t, h[2], h[3])
    BY <1>2 DEF Good, HasOwner
  <1> QED
    BY <1>2, <1>3, <1>4 DEF Good, t

-----------------------------------------------------------------------------
(* Every call keeps the invariant, whether it succeeds or fails.           *)

\* Owning in the scope or in Unlimited is what HasOwner asks for.
LEMMA OwnerIsOwner ==
    ASSUME NEW s \in Storage, NEW who \in Accounts, NEW p \in PermissionIds,
           NEW scope \in Scopes, Owns(s, who, p, scope) \/ Owns(s, who, p, Unlimited)
    PROVE  HasOwner(s, scope, p)
  <1>1. Unlimited \in Scopes
    BY KeyFacts
  <1> QED
    BY <1>1, OwnersAreAccounts DEF HasOwner

\* grant_permission_with_scope.
LEMMA GrantKeeps ==
    ASSUME NEW s, Good(s), NEW who \in Accounts, NEW a \in Accounts,
           NEW p \in PermissionIds, NEW scope \in Scopes
    PROVE  Good(GrantPermission(s, who, a, p, scope).st)
  <1>1. s \in Storage
    BY DEF Good
  <1>2. CASE Owns(s, who, p, scope) \/ Owns(s, who, p, Unlimited)
    <2>1. HasOwner(s, scope, p)
      BY <1>1, <1>2, OwnerIsOwner
    <2>2. Good(HoldCounted(s, a, p, scope).st)
      BY <2>1, HoldCountedKeeps
    <2> QED
      BY <1>2, <2>2 DEF GrantPermission
  <1>3. CASE ~(Owns(s, who, p, scope) \/ Owns(s, who, p, Unlimited))
    BY <1>3 DEF GrantPermission, Failed
  <1> QED
    BY <1>2, <1>3

\* transfer_permission: the half done one too.
LEMMA TransferKeeps ==
    ASSUME NEW s, Good(s), NEW who \in Accounts, NEW a \in Accounts,
           NEW p \in PermissionIds, NEW scope \in Scopes
    PROVE  Good(TransferPermission(s, who, a, p, scope).st)
  <1> DEFINE moved == MoveSlot(s, who, a, p, scope)
  <1>1. CASE s.modes[p] = NoMode \/ ~Owns(s, who, p, scope)
    BY <1>1 DEF TransferPermission, Failed
  <1>2. CASE ~(s.modes[p] = NoMode \/ ~Owns(s, who, p, scope))
    <2>1. Good(moved)
      BY <1>2, MoveSlotKeeps
    <2>2. TransferPermission(s, who, a, p, scope).st =
             IF CanIncConsumers(moved, a) THEN IncConsumers(moved, a) ELSE moved
      BY <1>2 DEF TransferPermission, Ok, Failed
    <2> HIDE DEF moved
    <2>3. CanIncConsumers(moved, a) => Good(IncConsumers(moved, a))
      BY <2>1, IncConsumersKeeps
    <2> QED
      BY <2>1, <2>2, <2>3
  <1> QED
    BY <1>1, <1>2

\* create_permission: the references first, then the mode, the owner and the holder.
LEMMA CreateKeeps ==
    ASSUME NEW s, Good(s), NEW owner \in Accounts, NEW a \in Accounts,
           NEW p \in PermissionIds, NEW scope \in Scopes, NEW mode \in {Permit, Forbid}
    PROVE  Good(CreatePermission(s, owner, a, p, scope, mode).st)
  <1> DEFINE refused == s.modes[p] # NoMode \/ (~HoldsAny(s, a) /\ ~CanIncConsumers(s, a))
             counted == IF HoldsAny(s, a) THEN s ELSE IncConsumers(s, a)
             both == IncConsumers(counted, owner)
             moded == [both EXCEPT !.modes[p] = mode]
             owned == PushOwner(moded, owner, p, scope)
  <1>1. CASE refused
    BY <1>1 DEF CreatePermission, Failed
  <1>2. CASE ~refused
    <2>1. Good(counted)
      BY <1>2, IncConsumersKeeps
    <2>2. CreatePermission(s, owner, a, p, scope, mode).st =
             IF ~CanIncConsumers(counted, owner) THEN counted
             ELSE Hold(owned, a, p, scope)
      BY <1>2 DEF CreatePermission, Ok, Failed
    <2> HIDE DEF counted
    <2>3. CASE ~CanIncConsumers(counted, owner)
      BY <2>1, <2>2, <2>3
    <2>4. CASE CanIncConsumers(counted, owner)
      <3>1. Good(both)
        BY <2>1, <2>4, IncConsumersKeeps
      <3> HIDE DEF both
      <3>2. Good(moded) /\ moded.modes[p] = mode
        <4>1. both \in Storage
          BY <3>1 DEF Good
        <4>2. moded.modes[p] = mode
          BY <4>1, SetModeFacts
        <4>3. Good(moded)
          BY <3>1, SetModeKeeps
        <4> QED
          BY <4>2, <4>3
      <3> HIDE DEF moded
      <3>3. moded.modes[p] # NoMode
        BY <3>2, ModeAssumption
      <3>4. Good(owned) /\ HasOwner(owned, scope, p)
        BY <3>2, <3>3, PushOwnerKeeps
      <3> HIDE DEF owned
      <3>5. Good(Hold(owned, a, p, scope))
        BY <3>4, HoldKeeps
      <3> QED
        BY <2>2, <2>4, <3>5
    <2> QED
      BY <2>3, <2>4
  <1> QED
    BY <1>1, <1>2

\* assign_permission.
LEMMA AssignKeeps ==
    ASSUME NEW s, Good(s), NEW owner \in Accounts, NEW holder \in Accounts,
           NEW p \in PermissionIds, NEW scope \in Scopes
    PROVE  Good(AssignPermission(s, owner, holder, p, scope).st)
  <1> DEFINE refused == s.modes[p] = NoMode \/ ~CanIncConsumers(s, owner)
             counted == IncConsumers(s, owner)
             owned == IF ~Owns(s, owner, p, scope) THEN PushOwner(counted, owner, p, scope)
                      ELSE counted
  <1>1. CASE refused
    BY <1>1 DEF AssignPermission, Failed
  <1>2. CASE ~refused
    <2>1. Good(counted)
      BY <1>2, IncConsumersKeeps
    <2>2. s \in Storage /\ counted.owners = s.owners /\ counted.modes = s.modes
      BY IncConsumersFacts DEF Good
    <2>3. AssignPermission(s, owner, holder, p, scope).st =
             IF s.modes[p] = Permit THEN HoldCounted(owned, holder, p, scope).st
             ELSE owned
      BY <1>2 DEF AssignPermission, Ok
    <2> HIDE DEF counted
    <2>4. Good(owned) /\ HasOwner(owned, scope, p)
      <3>1. CASE Owns(s, owner, p, scope)
        <4>1. HasOwner(s, scope, p)
          BY <2>2, <3>1, OwnerIsOwner
        <4>2. HasOwner(counted, scope, p)
          BY <2>2, <4>1 DEF HasOwner
        <4> QED
          BY <2>1, <3>1, <4>2
      <3>2. CASE ~Owns(s, owner, p, scope)
        <4>1. counted.modes[p] # NoMode
          BY <1>2, <2>2
        <4>2. /\ Good(PushOwner(counted, owner, p, scope))
              /\ HasOwner(PushOwner(counted, owner, p, scope), scope, p)
          BY <2>1, <4>1, PushOwnerKeeps
        <4> QED
          BY <3>2, <4>2
      <3> QED
        BY <3>1, <3>2
    <2> HIDE DEF owned
    <2>5. Good(HoldCounted(owned, holder, p, scope).st)
      BY <2>4, HoldCountedKeeps
    <2> QED
      BY <2>3, <2>4, <2>5
  <1> QED
    BY <1>1, <1>2

\* An account's providers come and go, but not the last one under a reference.
LEMMA ProvidersKeep ==
    ASSUME NEW s, Good(s), NEW a \in Accounts
    PROVE  /\ Good(IncProviders(s, a))
           /\ CanDecProviders(s, a) => Good(DecProviders(s, a))
  <1>1. /\ s \in Storage /\ s.providers \in [Accounts -> Nat]
        /\ s.consumers \in [Accounts -> Nat]
    BY StorageFacts DEF Good
  <1>2. ASSUME NEW n \in Nat, n = 0 => s.consumers[a] = 0
        PROVE  Good([s EXCEPT !.providers[a] = n])
    <2> DEFINE t == [s EXCEPT !.providers[a] = n]
    <2>1. /\ t \in Storage
          /\ t.owners = s.owners /\ t.modes = s.modes /\ t.held = s.held
          /\ t.consumers = s.consumers
          /\ t.providers[a] = n
          /\ \A b \in Accounts \ {a} : t.providers[b] = s.providers[b]
      BY <1>1, ProviderFacts
    <2> HIDE DEF t
    <2>2. \A b \in Accounts : t.consumers[b] > 0 => t.providers[b] > 0
      BY <1>1, <1>2, <2>1 DEF Good
    <2>3. \A k \in Keys : t.owners[k] # <<>> => t.modes[k[1]] # NoMode
      BY <2>1 DEF Good
    <2>4. \A h \in t.held : HasOwner(t, h[2], h[3])
      BY <2>1 DEF Good, HasOwner
    <2> QED
      BY <2>1, <2>2, <2>3, <2>4 DEF Good, t
  <1>3. /\ IncProviders(s, a) = [s EXCEPT !.providers[a] = s.providers[a] + 1]
        /\ DecProviders(s, a) = [s EXCEPT !.providers[a] = s.providers[a] - 1]
    BY DEF IncProviders, DecProviders
  <1>4. s.providers[a] \in Nat /\ s.consumers[a] \in Nat
    BY <1>1
  <1>5. Good(IncProviders(s, a))
    BY <1>2, <1>3, <1>4
  <1>6. ASSUME CanDecProviders(s, a)
        PROVE  Good(DecProviders(s, a))
    <2>1. /\ s.providers[a] - 1 \in Nat
          /\ s.providers[a] - 1 = 0 => s.consumers[a] = 0
      BY <1>4, <1>6 DEF CanDecProviders
    <2> QED
      BY <1>2, <1>3, <2>1
  <1> QED
    BY <1>5, <1>6

-----------------------------------------------------------------------------
(* The places of an account in the lists of owners.                        *)

\* What a place is.
LEMMA SlotsAre ==
    ASSUME NEW s, NEW a
    PROVE  \A x : x \in OwnerSlots(s, a) <=>
              \E key \in Keys : \E i \in DOMAIN s.owners[key] :
                 s.owners[key][i] = a /\ x = <<key, i>>
  BY DEF OwnerSlots, Keys

\* There are finitely many lists, each with finitely many places.
LEMMA SlotsAreFinite ==
    ASSUME NEW s \in Storage, NEW a
    PROVE  IsFiniteSet(OwnerSlots(s, a)) /\ Cardinality(OwnerSlots(s, a)) \in Nat
  <1> DEFINE places(key) == {i \in DOMAIN s.owners[key] : s.owners[key][i] = a}
             slots(key) == {<<key, i>> : i \in places(key)}
             all == {slots(key) : key \in Keys}
  <1>1. IsFiniteSet(Keys)
    <2>1. IsFiniteSet({Unlimited})
      BY FS_Singleton
    <2>2. IsFiniteSet(Scopes)
      BY <2>1, FS_Union, FiniteAssumption DEF Scopes
    <2> QED
      BY <2>2, FS_Product, FiniteAssumption DEF Keys
  <1>2. \A key \in Keys : s.owners[key] \in Seq(Accounts)
    BY StorageFacts
  <1>3. ASSUME NEW key \in Keys
        PROVE  IsFiniteSet(slots(key))
    <2>1. DOMAIN s.owners[key] = 1 .. Len(s.owners[key]) /\ Len(s.owners[key]) \in Nat
      BY <1>2, <1>3
    <2>2. IsFiniteSet(1 .. Len(s.owners[key]))
      BY <2>1, FS_Interval
    <2>3. places(key) \in SUBSET (1 .. Len(s.owners[key]))
      BY <2>1
    <2> HIDE DEF places
    <2>4. IsFiniteSet(places(key))
      BY <2>2, <2>3, FS_Subset
    <2> DEFINE f == [i \in places(key) |-> <<key, i>>]
    <2>5. f \in Surjection(places(key), slots(key))
      BY DEF Surjection
    <2> HIDE DEF f, slots
    <2> QED
      BY <2>4, <2>5, FS_Surjection
  <1>4. IsFiniteSet(all)
    <2> HIDE DEF slots
    <2> DEFINE f == [key \in Keys |-> slots(key)]
    <2>1. f \in Surjection(Keys, all)
      BY DEF Surjection
    <2> HIDE DEF f, all
    <2> QED
      BY <1>1, <2>1, FS_Surjection
  <1>5. \A T \in all : IsFiniteSet(T)
    <2> HIDE DEF slots
    <2> QED
      BY <1>3
  <1>6. OwnerSlots(s, a) = UNION all
    BY DEF OwnerSlots, Keys
  <1> HIDE DEF all
  <1>7. IsFiniteSet(OwnerSlots(s, a))
    BY <1>4, <1>5, <1>6, FS_UNION
  <1> QED
    BY <1>7, FS_CardinalityType

-----------------------------------------------------------------------------
(* The genesis.                                                            *)

\* The genesis storage has its types, whatever its lists are.
LEMMA GenesisTypes ==
    /\ GenesisStorage \in Storage
    /\ GenesisStorage.owners = GenesisOwners
    /\ GenesisStorage.modes = GenesisModes
    /\ GenesisStorage.held = GenesisHeld
    /\ \A a \in Accounts : GenesisStorage.providers[a] = 1
  <1> DEFINE empty == [owners |-> GenesisOwners, modes |-> GenesisModes,
                       held |-> GenesisHeld,
                       consumers |-> [a \in Accounts |-> 0],
                       providers |-> [a \in Accounts |-> 1]]
             entries(a) == {scope \in Scopes : \E p \in PermissionIds :
                                              <<a, scope, p>> \in GenesisHeld}
             counts == [a \in Accounts |-> Cardinality(OwnerSlots(empty, a))
                                           + Cardinality(entries(a))]
             t == [empty EXCEPT !.consumers = counts]
  <1>1. GenesisStorage = t
    BY DEF GenesisStorage
  <1>2. empty \in Storage
    BY GenesisAssumption DEF Storage
  <1>3. \A a \in Accounts : Cardinality(OwnerSlots(empty, a)) \in Nat
    <2> HIDE DEF empty
    <2> QED
      BY <1>2, SlotsAreFinite
  <1>4. \A a \in Accounts : Cardinality(entries(a)) \in Nat
    <2>1. IsFiniteSet({Unlimited})
      BY FS_Singleton
    <2>2. IsFiniteSet(Scopes)
      BY <2>1, FS_Union, FiniteAssumption DEF Scopes
    <2>3. \A a \in Accounts : entries(a) \in SUBSET Scopes
      OBVIOUS
    <2> HIDE DEF entries
    <2> QED
      BY <2>2, <2>3, FS_Subset, FS_CardinalityType
  <1>5. counts \in [Accounts -> Nat]
    <2> HIDE DEF empty, entries
    <2> QED
      BY <1>3, <1>4
  <1> HIDE DEF counts
  <1>6. /\ t.owners = GenesisOwners /\ t.modes = GenesisModes
        /\ t.held = GenesisHeld /\ t.providers = [a \in Accounts |-> 1]
        /\ t.consumers = counts
    OBVIOUS
  <1>7. t \in Storage
    BY <1>5, GenesisAssumption DEF Storage
  <1> HIDE DEF t
  <1> QED
    BY <1>1, <1>6, <1>7

\* The genesis is good: every account exists, and what is handed out has an owner.
LEMMA GenesisIsGood == Good(GenesisStorage)
  <1> DEFINE t == GenesisStorage
  <1>1. /\ t \in Storage
        /\ t.owners = GenesisOwners /\ t.modes = GenesisModes /\ t.held = GenesisHeld
        /\ \A a \in Accounts : t.providers[a] = 1
    BY GenesisTypes
  <1> HIDE DEF t
  <1>2. \A a \in Accounts : t.consumers[a] > 0 => t.providers[a] > 0
    BY <1>1
  <1>3. \A key \in Keys : t.owners[key] # <<>> => t.modes[key[1]] # NoMode
    BY <1>1, GenesisRolesAssumption DEF Keys
  <1>4. \A h \in t.held : HasOwner(t, h[2], h[3])
    BY <1>1, GenesisRolesAssumption DEF HasOwner
  <1> QED
    BY <1>1, <1>2, <1>3, <1>4 DEF Good, t

-----------------------------------------------------------------------------
(* The specification keeps the invariant.                                  *)

\* Every step is a call, or a balance that comes or goes, of a good storage.
LEMMA StepKeeps ==
    ASSUME Good(st), [Next]_vars
    PROVE  Good(st')
  <1>1. CASE UNCHANGED vars
    BY <1>1 DEF vars
  <1>2. ASSUME NEW who \in Accounts, NEW a \in Accounts, NEW p \in PermissionIds,
               NEW scope \in Scopes, Grant(who, a, p, scope)
        PROVE  Good(st')
    BY <1>2, GrantKeeps DEF Grant
  <1>3. ASSUME NEW who \in Accounts, NEW a \in Accounts, NEW p \in PermissionIds,
               NEW scope \in Scopes, Transfer(who, a, p, scope)
        PROVE  Good(st')
    BY <1>3, TransferKeeps DEF Transfer
  <1>4. ASSUME NEW who \in Accounts, NEW a \in Accounts, NEW p \in PermissionIds,
               NEW scope \in Scopes, Create(who, a, p, scope)
        PROVE  Good(st')
    BY <1>4, CreateKeeps DEF Create
  <1>5. ASSUME NEW who \in Accounts, NEW a \in Accounts, NEW p \in PermissionIds,
               NEW scope \in Scopes, Assign(who, a, p, scope)
        PROVE  Good(st')
    BY <1>5, AssignKeeps DEF Assign
  <1>6. ASSUME NEW a \in Accounts, AddProvider(a)
        PROVE  Good(st')
    BY <1>6, ProvidersKeep DEF AddProvider
  <1>7. ASSUME NEW a \in Accounts, RemoveProvider(a)
        PROVE  Good(st')
    BY <1>7, ProvidersKeep DEF RemoveProvider
  <1> QED
    BY <1>1, <1>2, <1>3, <1>4, <1>5, <1>6, <1>7 DEF Next

\* The invariant of every behaviour.
LEMMA Invariant == Spec => []Good(st)
  <1>1. Init => Good(st)
    BY GenesisIsGood DEF Init
  <1>2. Good(st) /\ [Next]_vars => Good(st)'
    BY StepKeeps
  <1> QED
    BY <1>1, <1>2, PTL DEF Spec

\* The storage keeps its types, and no order of grants, transfers, creations,
\* assignments and balances that come and go leaves a consumer reference to an
\* account that no longer has a provider (frame_system's inc_consumers and
\* dec_providers, as the pallet uses them).
THEOREM TypeCorrect == Spec => []TypeOK
  <1>1. Good(st) => TypeOK
    BY DEF Good, TypeOK
  <1> QED
    BY <1>1, Invariant, PTL

\* Whatever grant_permission, create_permission and assign_permission have let an
\* account hold has a mode and an owner, in the scope or in Unlimited, also after
\* transfers of the ownership that succeeded or were left half done.
THEOREM HeldAlwaysHasOwner == Spec => []HeldHasOwner
  <1>1. ASSUME Good(st)
        PROVE  HeldHasOwner
    <2> SUFFICES ASSUME NEW h \in st.held
                 PROVE  /\ st.modes[h[3]] # NoMode
                        /\ \E o \in Accounts : \/ Owns(st, o, h[3], h[2])
                                               \/ Owns(st, o, h[3], Unlimited)
      BY DEF HeldHasOwner
    <2>1. /\ st \in Storage /\ h[3] \in PermissionIds /\ h[2] \in Scopes
          /\ Unlimited \in Scopes
      BY <1>1, StorageFacts, KeyFacts DEF Good
    <2>2. HasOwner(st, h[2], h[3])
      BY <1>1 DEF Good
    <2>3. /\ <<h[3], h[2]>> \in Keys /\ <<h[3], Unlimited>> \in Keys
          /\ <<h[3], h[2]>>[1] = h[3] /\ <<h[3], Unlimited>>[1] = h[3]
      BY <2>1, KeyFacts
    <2>4. st.modes[h[3]] # NoMode
      BY <1>1, <2>2, <2>3 DEF Good, HasOwner
    <2>5. \E o \in Accounts : Owns(st, o, h[3], h[2]) \/ Owns(st, o, h[3], Unlimited)
      BY <2>1, <2>2, OwnersAreAccounts DEF HasOwner
    <2> QED
      BY <2>4, <2>5
  <1> QED
    BY <1>1, Invariant, PTL

-----------------------------------------------------------------------------
(* References to owners and holders.                                       *)

\* What the account b needs, and that its references exceed it by at least n.
Covered(s, b, n) == s.consumers[b] >= ReferencesNeeded(s, b) + n

\* A reference needed is a natural number of them.
LEMMA NeededType ==
    ASSUME NEW s \in Storage, NEW b \in Accounts
    PROVE  ReferencesNeeded(s, b) \in Nat
  BY SlotsAreFinite DEF ReferencesNeeded

\* The lists of owners and the entries of Permissions decide what is needed.
LEMMA NeededFrom ==
    ASSUME NEW s, NEW t, NEW b, t.owners = s.owners, t.held = s.held
    PROVE  ReferencesNeeded(t, b) = ReferencesNeeded(s, b)
  <1>1. OwnerSlots(t, b) = OwnerSlots(s, b)
    BY DEF OwnerSlots
  <1>2. HoldsAny(t, b) <=> HoldsAny(s, b)
    BY DEF HoldsAny
  <1> QED
    BY <1>1, <1>2 DEF ReferencesNeeded

\* A counted reference is one more than before.
LEMMA IncConsumersCovers ==
    ASSUME NEW s \in Storage, NEW a \in Accounts, NEW b \in Accounts, NEW n \in Nat,
           Covered(s, b, n)
    PROVE  Covered(IncConsumers(s, a), b, IF b = a THEN n + 1 ELSE n)
  <1> DEFINE t == IncConsumers(s, a)
  <1>1. /\ t \in Storage
        /\ t.owners = s.owners /\ t.modes = s.modes /\ t.held = s.held
        /\ t.providers = s.providers
        /\ \A c \in Accounts : t.consumers[c] =
              s.consumers[c] + (IF c = a THEN 1 ELSE 0)
    BY IncConsumersFacts
  <1> HIDE DEF t
  <1>2. ReferencesNeeded(t, b) = ReferencesNeeded(s, b)
    BY <1>1, NeededFrom
  <1>3. s.consumers[b] \in Nat /\ ReferencesNeeded(s, b) \in Nat
    BY StorageFacts, NeededType
  <1>4. t.consumers[b] = s.consumers[b] + (IF b = a THEN 1 ELSE 0)
    BY <1>1
  <1> QED
    BY <1>2, <1>3, <1>4 DEF Covered, t

\* An entry of Permissions needs a reference when it is the account's first.
LEMMA HoldCovers ==
    ASSUME NEW s \in Storage, NEW a \in Accounts, NEW b \in Accounts,
           NEW p \in PermissionIds, NEW scope \in Scopes, NEW n \in Nat,
           Covered(s, b, n), b = a /\ ~HoldsAny(s, a) => n >= 1
    PROVE  Covered(Hold(s, a, p, scope), b, 0)
  <1> DEFINE t == Hold(s, a, p, scope)
  <1>1. /\ t \in Storage
        /\ t.owners = s.owners /\ t.modes = s.modes
        /\ t.consumers = s.consumers /\ t.providers = s.providers
        /\ t.held = s.held \cup {<<a, scope, p>>}
    BY HoldFacts
  <1> HIDE DEF t
  <1>2. OwnerSlots(t, b) = OwnerSlots(s, b)
    BY <1>1 DEF OwnerSlots
  <1>3. Cardinality(OwnerSlots(s, b)) \in Nat /\ s.consumers[b] \in Nat
    BY SlotsAreFinite, StorageFacts
  <1>4. HoldsAny(t, b) => b = a \/ HoldsAny(s, b)
    BY <1>1 DEF HoldsAny
  <1>5. t.consumers[b] >= ReferencesNeeded(t, b)
    <2> DEFINE c == Cardinality(OwnerSlots(s, b))
    <2>1. /\ s.consumers[b] >= c + (IF HoldsAny(s, b) THEN 1 ELSE 0) + n
          /\ ReferencesNeeded(t, b) = c + (IF HoldsAny(t, b) THEN 1 ELSE 0)
      BY <1>2 DEF Covered, ReferencesNeeded
    <2>2. c \in Nat /\ t.consumers = s.consumers
      BY <1>1, <1>3
    <2> HIDE DEF c
    <2>3. CASE HoldsAny(s, b)
      BY <1>3, <2>1, <2>2, <2>3
    <2>4. CASE ~HoldsAny(s, b) /\ b # a
      BY <1>3, <1>4, <2>1, <2>2, <2>4
    <2>5. CASE ~HoldsAny(s, b) /\ b = a
      <3>1. n >= 1
        BY <2>5
      <3> QED
        BY <1>3, <2>1, <2>2, <2>5, <3>1
    <2> QED
      BY <2>3, <2>4, <2>5
  <1>6. t.consumers[b] \in Nat /\ ReferencesNeeded(t, b) \in Nat
    BY <1>1, NeededType, StorageFacts
  <1> QED
    BY <1>5, <1>6 DEF Covered, t

\* A new place in a list of owners is a place of one account.
LEMMA PushOwnerCovers ==
    ASSUME NEW s \in Storage, NEW a \in Accounts, NEW b \in Accounts,
           NEW p \in PermissionIds, NEW scope \in Scopes, NEW n \in Nat,
           Covered(s, b, IF b = a THEN n + 1 ELSE n)
    PROVE  Covered(PushOwner(s, a, p, scope), b, n)
  <1> DEFINE t == PushOwner(s, a, p, scope)
             key == <<p, scope>>
             list == s.owners[key]
             slot == <<key, Len(list) + 1>>
  <1>1. /\ t \in Storage
        /\ t.modes = s.modes /\ t.held = s.held
        /\ t.consumers = s.consumers /\ t.providers = s.providers
        /\ t.owners[key] = Append(s.owners[key], a)
        /\ \A k \in Keys \ {key} : t.owners[k] = s.owners[k]
    BY PushOwnerFacts
  <1>2. key \in Keys /\ list \in Seq(Accounts)
    BY StorageFacts, KeyFacts
  <1>3. t.owners[key] = Append(list, a)
    BY <1>1
  <1> HIDE DEF t, key, list
  <1>4. /\ DOMAIN list = 1 .. Len(list) /\ Len(list) \in Nat
        /\ DOMAIN Append(list, a) = 1 .. (Len(list) + 1)
        /\ Append(list, a)[Len(list) + 1] = a
        /\ \A i \in 1 .. Len(list) : Append(list, a)[i] = list[i]
    BY <1>2
  <1>5. OwnerSlots(t, b) = IF b = a THEN OwnerSlots(s, b) \cup {slot} ELSE OwnerSlots(s, b)
    <2>1. ASSUME NEW x \in OwnerSlots(t, b)
          PROVE  x \in OwnerSlots(s, b) \/ (b = a /\ x = slot)
      <3>1. PICK k \in Keys : \E i \in DOMAIN t.owners[k] :
                              t.owners[k][i] = b /\ x = <<k, i>>
        BY <2>1, SlotsAre
      <3> PICK i \in DOMAIN t.owners[k] : t.owners[k][i] = b /\ x = <<k, i>>
        BY <3>1
      <3>2. CASE k # key
        <4>1. s.owners[k][i] = b /\ i \in DOMAIN s.owners[k]
          BY <1>1, <3>2
        <4> QED
          BY <4>1, SlotsAre
      <3>3. CASE k = key /\ i \in 1 .. Len(list)
        <4>1. s.owners[k][i] = b /\ i \in DOMAIN s.owners[k]
          BY <1>3, <1>4, <3>1, <3>3 DEF list
        <4> QED
          BY <3>1, <4>1, SlotsAre
      <3>4. CASE k = key /\ ~(i \in 1 .. Len(list))
        <4>1. i = Len(list) + 1
          BY <1>3, <1>4, <3>1, <3>4
        <4> QED
          BY <1>3, <1>4, <3>1, <3>4, <4>1
      <3> QED
        BY <3>2, <3>3, <3>4
    <2>2. ASSUME NEW x \in OwnerSlots(s, b)
          PROVE  x \in OwnerSlots(t, b)
      <3>1. PICK k \in Keys : \E i \in DOMAIN s.owners[k] :
                              s.owners[k][i] = b /\ x = <<k, i>>
        BY <2>2, SlotsAre
      <3> PICK i \in DOMAIN s.owners[k] : s.owners[k][i] = b /\ x = <<k, i>>
        BY <3>1
      <3>2. t.owners[k][i] = b /\ i \in DOMAIN t.owners[k]
        <4>1. CASE k # key
          BY <1>1, <3>1, <4>1
        <4>2. CASE k = key
          BY <1>3, <1>4, <3>1, <4>2 DEF list
        <4> QED
          BY <4>1, <4>2
      <3> QED
        BY <3>1, <3>2, SlotsAre
    <2>3. b = a => slot \in OwnerSlots(t, b)
      <3>1. Len(list) + 1 \in DOMAIN t.owners[key] /\ t.owners[key][Len(list) + 1] = a
        BY <1>3, <1>4
      <3> QED
        BY <1>2, <3>1, SlotsAre
    <2> HIDE DEF slot
    <2> QED
      BY <2>1, <2>2, <2>3
  <1> HIDE DEF slot
  <1>6. /\ Cardinality(OwnerSlots(s, b)) \in Nat /\ IsFiniteSet(OwnerSlots(s, b))
        /\ Cardinality(OwnerSlots(t, b)) \in Nat /\ s.consumers[b] \in Nat
    BY <1>1, SlotsAreFinite, StorageFacts
  <1>7. Cardinality(OwnerSlots(t, b)) <=
           Cardinality(OwnerSlots(s, b)) + (IF b = a THEN 1 ELSE 0)
    <2>1. CASE b = a
      <3>1. Cardinality(OwnerSlots(s, b) \cup {slot}) =
               IF slot \in OwnerSlots(s, b) THEN Cardinality(OwnerSlots(s, b))
               ELSE Cardinality(OwnerSlots(s, b)) + 1
        BY <1>6, FS_AddElement
      <3> QED
        BY <1>5, <1>6, <2>1, <3>1
    <2>2. CASE b # a
      BY <1>5, <1>6, <2>2
    <2> QED
      BY <2>1, <2>2
  <1>8. HoldsAny(t, b) <=> HoldsAny(s, b)
    BY <1>1 DEF HoldsAny
  <1>9. t.consumers[b] >= ReferencesNeeded(t, b) + n
    <2> DEFINE c == Cardinality(OwnerSlots(s, b))
               d == Cardinality(OwnerSlots(t, b))
               h == IF HoldsAny(s, b) THEN 1 ELSE 0
               m == IF b = a THEN 1 ELSE 0
    <2>1. h \in Nat /\ m \in Nat /\ c \in Nat /\ d \in Nat /\ s.consumers[b] \in Nat
      BY <1>6
    <2>2. d <= c + m
      BY <1>7
    <2>3. s.consumers[b] >= (c + h) + (IF b = a THEN n + 1 ELSE n)
      BY DEF Covered, ReferencesNeeded
    <2>4. ReferencesNeeded(t, b) = d + h /\ t.consumers[b] = s.consumers[b]
      BY <1>1, <1>8 DEF ReferencesNeeded
    <2>5. (IF b = a THEN n + 1 ELSE n) = n + m
      OBVIOUS
    <2> HIDE DEF c, d, h, m
    <2> QED
      BY <2>1, <2>2, <2>3, <2>4, <2>5
  <1> QED
    BY <1>9 DEF Covered, t

\* A place that moves takes one reference from its old account, and is missing one
\* at the new account until transfer_permission counts it.
LEMMA MoveSlotCovers ==
    ASSUME NEW s \in Storage, NEW who \in Accounts, NEW a \in Accounts,
           NEW b \in Accounts, NEW p \in PermissionIds, NEW scope \in Scopes,
           Owns(s, who, p, scope), Covered(s, b, 0)
    PROVE  LET t == MoveSlot(s, who, a, p, scope)
           IN  t.consumers[b] + (IF b = a THEN 1 ELSE 0) >= ReferencesNeeded(t, b)
  <1> DEFINE t == MoveSlot(s, who, a, p, scope)
             key == <<p, scope>>
             i == FirstSlot(s, who, p, scope)
             list == s.owners[key]
             moved == [list EXCEPT ![i] = a]
             slot == <<key, i>>
  <1>1. /\ t \in Storage
        /\ t.modes = s.modes /\ t.held = s.held /\ t.providers = s.providers
        /\ i \in 1 .. Len(s.owners[key]) /\ s.owners[key][i] = who
        /\ t.owners[key] = [s.owners[key] EXCEPT ![i] = a]
        /\ \A k \in Keys \ {key} : t.owners[k] = s.owners[k]
        /\ \A c \in Accounts : t.consumers[c] =
              IF c = who /\ s.consumers[c] > 0 THEN s.consumers[c] - 1
              ELSE s.consumers[c]
    BY MoveSlotFacts
  <1>2. key \in Keys /\ list \in Seq(Accounts)
    BY StorageFacts, KeyFacts
  <1>3. t.owners[key] = moved /\ i \in 1 .. Len(list) /\ list[i] = who
    BY <1>1
  <1> HIDE DEF t, key, list, i
  <1>4. /\ DOMAIN list = 1 .. Len(list) /\ DOMAIN moved = 1 .. Len(list)
        /\ moved[i] = a
        /\ \A j \in (1 .. Len(list)) \ {i} : moved[j] = list[j]
    BY <1>2, <1>3
  <1> HIDE DEF moved
  <1>5. OwnerSlots(t, b) = IF b = a THEN OwnerSlots(s, b) \cup {slot}
                                    ELSE OwnerSlots(s, b) \ {slot}
    <2>1. ASSUME NEW k \in Keys, NEW j, k # key \/ j # i
          PROVE  <<k, j>> \in OwnerSlots(t, b) <=> <<k, j>> \in OwnerSlots(s, b)
      <3>1. /\ j \in DOMAIN t.owners[k] <=> j \in DOMAIN s.owners[k]
            /\ j \in DOMAIN s.owners[k] => t.owners[k][j] = s.owners[k][j]
        <4>1. CASE k # key
          BY <1>1, <4>1
        <4>2. CASE k = key
          BY <1>3, <1>4, <2>1, <4>2 DEF list
        <4> QED
          BY <4>1, <4>2
      <3> QED
        BY <3>1, SlotsAre
    <2>2. slot \in OwnerSlots(t, b) <=> b = a
      <3>1. i \in DOMAIN t.owners[key] /\ t.owners[key][i] = a
        BY <1>3, <1>4
      <3> QED
        BY <1>2, <3>1, SlotsAre
    <2>3. \A x \in OwnerSlots(t, b) \cup OwnerSlots(s, b) :
             \E k \in Keys : \E j : x = <<k, j>>
      BY SlotsAre
    <2>4. ASSUME NEW x \in OwnerSlots(t, b) \cup OwnerSlots(s, b), x # slot
          PROVE  x \in OwnerSlots(t, b) <=> x \in OwnerSlots(s, b)
      <3>1. PICK k \in Keys : \E j : x = <<k, j>>
        BY <2>3
      <3>2. PICK j : x = <<k, j>>
        BY <3>1
      <3>3. k # key \/ j # i
        BY <2>4, <3>2
      <3> QED
        BY <2>1, <3>2, <3>3
    <2> HIDE DEF slot
    <2> QED
      BY <2>2, <2>4
  <1>6. slot \in OwnerSlots(s, who)
    BY <1>2, <1>3, <1>4, SlotsAre DEF list
  <1> HIDE DEF slot
  <1> DEFINE c == Cardinality(OwnerSlots(s, b))
             d == Cardinality(OwnerSlots(t, b))
             h == IF HoldsAny(s, b) THEN 1 ELSE 0
  <1>7. /\ c \in Nat /\ d \in Nat /\ h \in Nat /\ s.consumers[b] \in Nat
        /\ IsFiniteSet(OwnerSlots(s, b))
    BY <1>1, SlotsAreFinite, StorageFacts
  <1>8. /\ s.consumers[b] >= c + h
        /\ ReferencesNeeded(t, b) = d + h
    <2>1. HoldsAny(t, b) <=> HoldsAny(s, b)
      BY <1>1 DEF HoldsAny
    <2>2. s.consumers[b] >= (c + h) + 0
      BY DEF Covered, ReferencesNeeded
    <2> HIDE DEF c
    <2>3. s.consumers[b] >= c + h
      BY <1>7, <2>2
    <2>4. ReferencesNeeded(t, b) = d + h
      BY <2>1 DEF ReferencesNeeded
    <2> QED
      BY <2>3, <2>4
  <1>9. /\ b = a /\ b = who => d = c /\ c >= 1
        /\ b = a /\ b # who => d <= c + 1
        /\ b # a /\ b = who => d = c - 1 /\ c >= 1
        /\ b # a /\ b # who => d <= c
    <2>1. Cardinality(OwnerSlots(s, b) \cup {slot}) =
             IF slot \in OwnerSlots(s, b) THEN c ELSE c + 1
      BY <1>7, FS_AddElement
    <2>2. Cardinality(OwnerSlots(s, b) \ {slot}) =
             IF slot \in OwnerSlots(s, b) THEN c - 1 ELSE c
      BY <1>7, FS_RemoveElement
    <2>3. slot \in OwnerSlots(s, b) => c >= 1
      <3>1. slot \in OwnerSlots(s, b) => c # 0
        BY <1>7, FS_EmptySet
      <3> HIDE DEF c
      <3> QED
        BY <1>7, <3>1
    <2>4. b = a => d = IF slot \in OwnerSlots(s, b) THEN c ELSE c + 1
      BY <1>5, <2>1
    <2>5. b # a => d = IF slot \in OwnerSlots(s, b) THEN c - 1 ELSE c
      BY <1>5, <2>2
    <2>6. b = who => slot \in OwnerSlots(s, b)
      BY <1>6
    <2> HIDE DEF c, d
    <2> QED
      BY <1>7, <2>3, <2>4, <2>5, <2>6
  <1>10. t.consumers[b] = IF b = who /\ s.consumers[b] > 0 THEN s.consumers[b] - 1
                          ELSE s.consumers[b]
    BY <1>1
  <1> HIDE DEF c, d, h
  <1>11. t.consumers[b] + (IF b = a THEN 1 ELSE 0) >= d + h
    <2>1. CASE b = a /\ b = who
      BY <1>7, <1>8, <1>9, <1>10, <2>1
    <2>2. CASE b = a /\ b # who
      BY <1>7, <1>8, <1>9, <1>10, <2>2
    <2>3. CASE b # a /\ b = who
      BY <1>7, <1>8, <1>9, <1>10, <2>3
    <2>4. CASE b # a /\ b # who
      BY <1>7, <1>8, <1>9, <1>10, <2>4
    <2> QED
      BY <2>1, <2>2, <2>3, <2>4
  <1> QED
    BY <1>8, <1>11 DEF t

\* References to spare are references.
LEMMA CoveredWeakens ==
    ASSUME NEW s \in Storage, NEW b \in Accounts, NEW n \in Nat, Covered(s, b, n)
    PROVE  Covered(s, b, 0)
  <1>1. s.consumers[b] \in Nat /\ ReferencesNeeded(s, b) \in Nat
    BY StorageFacts, NeededType
  <1> QED
    BY <1>1 DEF Covered

\* A holder with a reference for its first entry is covered.
LEMMA HoldCountedCovers ==
    ASSUME NEW s \in Storage, NEW a \in Accounts, NEW b \in Accounts,
           NEW p \in PermissionIds, NEW scope \in Scopes, Covered(s, b, 0)
    PROVE  Covered(HoldCounted(s, a, p, scope).st, b, 0)
  <1>1. CASE HoldsAny(s, a)
    <2>1. Covered(Hold(s, a, p, scope), b, 0)
      BY <1>1, HoldCovers
    <2> QED
      BY <1>1, <2>1 DEF HoldCounted, Ok
  <1>2. CASE ~HoldsAny(s, a) /\ CanIncConsumers(s, a)
    <2> DEFINE t == IncConsumers(s, a)
               n == IF b = a THEN 0 + 1 ELSE 0
    <2>1. Covered(t, b, n) /\ t \in Storage
      BY IncConsumersCovers, IncConsumersFacts
    <2>2. n \in Nat /\ (b = a => n >= 1)
      OBVIOUS
    <2>3. HoldCounted(s, a, p, scope).st = Hold(t, a, p, scope)
      BY <1>2 DEF HoldCounted, Ok
    <2> HIDE DEF t, n
    <2>4. Covered(Hold(t, a, p, scope), b, 0)
      BY <2>1, <2>2, HoldCovers
    <2> QED
      BY <2>3, <2>4
  <1>3. CASE ~HoldsAny(s, a) /\ ~CanIncConsumers(s, a)
    BY <1>3 DEF HoldCounted, Failed
  <1> QED
    BY <1>1, <1>2, <1>3

\* grant_permission_with_scope covers its holder.
LEMMA GrantCovers ==
    ASSUME NEW s \in Storage, NEW who \in Accounts, NEW a \in Accounts,
           NEW b \in Accounts, NEW p \in PermissionIds, NEW scope \in Scopes,
           Covered(s, b, 0)
    PROVE  Covered(GrantPermission(s, who, a, p, scope).st, b, 0)
  BY HoldCountedCovers DEF GrantPermission, Failed

\* transfer_permission covers both accounts when it succeeds, and writes nothing, or
\* half of what it should, when it fails.
LEMMA TransferCovers ==
    ASSUME NEW s \in Storage, NEW who \in Accounts, NEW a \in Accounts,
           NEW b \in Accounts, NEW p \in PermissionIds, NEW scope \in Scopes,
           Covered(s, b, 0)
    PROVE  LET result == TransferPermission(s, who, a, p, scope)
           IN  \/ Covered(result.st, b, 0)
               \/ ~result.ok
  <1> DEFINE moved == MoveSlot(s, who, a, p, scope)
             t == IncConsumers(moved, a)
  <1>1. CASE s.modes[p] = NoMode \/ ~Owns(s, who, p, scope)
    BY <1>1 DEF TransferPermission, Failed
  <1>2. CASE ~(s.modes[p] = NoMode \/ ~Owns(s, who, p, scope))
    <2>1. /\ moved \in Storage
          /\ moved.consumers[b] + (IF b = a THEN 1 ELSE 0) >= ReferencesNeeded(moved, b)
      BY <1>2, MoveSlotFacts, MoveSlotCovers
    <2>2. /\ TransferPermission(s, who, a, p, scope) =
                IF CanIncConsumers(moved, a) THEN Ok(t) ELSE Failed(moved)
      BY <1>2 DEF TransferPermission
    <2> HIDE DEF moved
    <2>3. /\ t \in Storage /\ t.owners = moved.owners /\ t.held = moved.held
          /\ \A c \in Accounts : t.consumers[c] =
                moved.consumers[c] + (IF c = a THEN 1 ELSE 0)
      BY <2>1, IncConsumersFacts
    <2> HIDE DEF t
    <2>4. ReferencesNeeded(t, b) = ReferencesNeeded(moved, b)
      BY <2>3, NeededFrom
    <2>5. ReferencesNeeded(t, b) \in Nat
      BY <2>3, NeededType
    <2>6. Covered(t, b, 0)
      BY <2>1, <2>3, <2>4, <2>5 DEF Covered
    <2> QED
      BY <2>2, <2>6 DEF Ok, Failed
  <1> QED
    BY <1>1, <1>2

\* create_permission covers its owner and its holder, who may be the same account.
LEMMA CreateCovers ==
    ASSUME NEW s \in Storage, NEW owner \in Accounts, NEW a \in Accounts,
           NEW b \in Accounts, NEW p \in PermissionIds, NEW scope \in Scopes,
           NEW mode \in {Permit, Forbid}, Covered(s, b, 0)
    PROVE  Covered(CreatePermission(s, owner, a, p, scope, mode).st, b, 0)
  <1> DEFINE refused == s.modes[p] # NoMode \/ (~HoldsAny(s, a) /\ ~CanIncConsumers(s, a))
             counted == IF HoldsAny(s, a) THEN s ELSE IncConsumers(s, a)
             both == IncConsumers(counted, owner)
             moded == [both EXCEPT !.modes[p] = mode]
             owned == PushOwner(moded, owner, p, scope)
             n == IF ~HoldsAny(s, a) /\ b = a THEN 1 ELSE 0
  <1>1. CASE refused
    BY <1>1 DEF CreatePermission, Failed
  <1>2. CASE ~refused
    <2>1. /\ counted \in Storage /\ n \in Nat
          /\ counted.held = s.held
      BY IncConsumersFacts
    <2>2. Covered(counted, b, n)
      <3>1. CASE HoldsAny(s, a)
        BY <3>1
      <3>2. CASE ~HoldsAny(s, a)
        <4>1. Covered(IncConsumers(s, a), b, IF b = a THEN 0 + 1 ELSE 0)
          BY IncConsumersCovers
        <4>2. n = IF b = a THEN 0 + 1 ELSE 0
          BY <3>2
        <4> HIDE DEF n
        <4> QED
          BY <3>2, <4>1, <4>2
      <3> QED
        BY <3>1, <3>2
    <2>3. CreatePermission(s, owner, a, p, scope, mode).st =
             IF ~CanIncConsumers(counted, owner) THEN counted
             ELSE Hold(owned, a, p, scope)
      BY <1>2 DEF CreatePermission, Ok, Failed
    <2>4. b = a /\ ~HoldsAny(s, a) => n >= 1
      OBVIOUS
    <2> HIDE DEF counted, n
    <2>5. Covered(counted, b, 0)
      BY <2>1, <2>2, CoveredWeakens
    <2>6. /\ both \in Storage /\ both.held = counted.held
          /\ Covered(both, b, IF b = owner THEN n + 1 ELSE n)
      BY <2>1, <2>2, IncConsumersFacts, IncConsumersCovers
    <2> HIDE DEF both
    <2>7. /\ moded \in Storage /\ moded.held = both.held
          /\ moded.owners = both.owners /\ moded.consumers = both.consumers
      BY <2>6, SetModeFacts
    <2> HIDE DEF moded
    <2>8. Covered(moded, b, IF b = owner THEN n + 1 ELSE n)
      <3>1. ReferencesNeeded(moded, b) = ReferencesNeeded(both, b)
        BY <2>7, NeededFrom
      <3> QED
        BY <2>6, <2>7, <3>1 DEF Covered
    <2>9. /\ owned \in Storage /\ owned.held = moded.held
          /\ Covered(owned, b, n)
      BY <2>1, <2>7, <2>8, PushOwnerFacts, PushOwnerCovers
    <2> HIDE DEF owned
    <2>10. HoldsAny(owned, a) <=> HoldsAny(s, a)
      BY <2>1, <2>6, <2>7, <2>9 DEF HoldsAny
    <2>11. Covered(Hold(owned, a, p, scope), b, 0)
      BY <2>1, <2>4, <2>9, <2>10, HoldCovers
    <2> QED
      BY <2>3, <2>5, <2>11
  <1> QED
    BY <1>1, <1>2

\* assign_permission covers its owner and its holder.
LEMMA AssignCovers ==
    ASSUME NEW s \in Storage, NEW owner \in Accounts, NEW holder \in Accounts,
           NEW b \in Accounts, NEW p \in PermissionIds, NEW scope \in Scopes,
           Covered(s, b, 0)
    PROVE  Covered(AssignPermission(s, owner, holder, p, scope).st, b, 0)
  <1> DEFINE refused == s.modes[p] = NoMode \/ ~CanIncConsumers(s, owner)
             counted == IncConsumers(s, owner)
             owned == IF ~Owns(s, owner, p, scope) THEN PushOwner(counted, owner, p, scope)
                      ELSE counted
             n == IF b = owner THEN 0 + 1 ELSE 0
  <1>1. CASE refused
    BY <1>1 DEF AssignPermission, Failed
  <1>2. CASE ~refused
    <2>1. counted \in Storage /\ Covered(counted, b, n) /\ n \in Nat
      BY IncConsumersFacts, IncConsumersCovers
    <2>2. AssignPermission(s, owner, holder, p, scope).st =
             IF s.modes[p] = Permit THEN HoldCounted(owned, holder, p, scope).st
             ELSE owned
      BY <1>2 DEF AssignPermission, Ok
    <2> HIDE DEF counted
    <2>3. owned \in Storage /\ Covered(owned, b, 0)
      <3>1. CASE Owns(s, owner, p, scope)
        <4> HIDE DEF n
        <4>1. Covered(counted, b, 0)
          BY <2>1, CoveredWeakens
        <4> QED
          BY <2>1, <3>1, <4>1
      <3>2. CASE ~Owns(s, owner, p, scope)
        <4>1. Covered(counted, b, IF b = owner THEN 0 + 1 ELSE 0)
          BY <2>1
        <4> HIDE DEF n
        <4>2. /\ Covered(PushOwner(counted, owner, p, scope), b, 0)
              /\ PushOwner(counted, owner, p, scope) \in Storage
          BY <2>1, <4>1, PushOwnerFacts, PushOwnerCovers
        <4> QED
          BY <3>2, <4>2
      <3> QED
        BY <3>1, <3>2
    <2> HIDE DEF owned
    <2>4. Covered(HoldCounted(owned, holder, p, scope).st, b, 0)
      BY <2>3, HoldCountedCovers
    <2> QED
      BY <2>2, <2>3, <2>4
  <1> QED
    BY <1>1, <1>2

\* Every account has the references it needs when each is covered.
LEMMA CoveredIsReferenced ==
    ASSUME NEW s \in Storage
    PROVE  ReferencesCovered(s) <=> \A b \in Accounts : Covered(s, b, 0)
  <1>1. \A b \in Accounts : s.consumers[b] \in Nat /\ ReferencesNeeded(s, b) \in Nat
    BY StorageFacts, NeededType
  <1> QED
    BY <1>1 DEF ReferencesCovered, Covered

\* Every step but a transfer left half done keeps every account covered.
LEMMA StepCovers ==
    ASSUME Good(st), Good(st'), [Next]_vars,
           ReferencesCovered(st), ~TransferLeftPartWritten
    PROVE  ReferencesCovered(st')
  <1>1. /\ st \in Storage /\ st' \in Storage
        /\ \A b \in Accounts : Covered(st, b, 0)
    BY CoveredIsReferenced DEF Good
  <1> SUFFICES ASSUME NEW b \in Accounts PROVE Covered(st', b, 0)
    <2>1. \A s \in Storage : (\A b \in Accounts : Covered(s, b, 0)) => ReferencesCovered(s)
      BY CoveredIsReferenced
    <2> QED
      BY <1>1, <2>1
  <1>2. CASE UNCHANGED vars
    BY <1>1, <1>2 DEF vars
  <1>3. ASSUME NEW who \in Accounts, NEW a \in Accounts, NEW p \in PermissionIds,
               NEW scope \in Scopes, Grant(who, a, p, scope)
        PROVE  Covered(st', b, 0)
    BY <1>1, <1>3, GrantCovers DEF Grant
  <1>4. ASSUME NEW who \in Accounts, NEW a \in Accounts, NEW p \in PermissionIds,
               NEW scope \in Scopes, Transfer(who, a, p, scope)
        PROVE  Covered(st', b, 0)
    <2> DEFINE result == TransferPermission(st, who, a, p, scope)
    <2>1. Covered(result.st, b, 0) \/ ~result.ok
      BY <1>1, TransferCovers
    <2>2. st' = result.st
      BY <1>4 DEF Transfer
    <2>3. ~(~result.ok /\ result.st # st /\ st' = result.st)
      BY DEF TransferLeftPartWritten
    <2> HIDE DEF result
    <2> QED
      BY <1>1, <2>1, <2>2, <2>3
  <1>5. ASSUME NEW who \in Accounts, NEW a \in Accounts, NEW p \in PermissionIds,
               NEW scope \in Scopes, Create(who, a, p, scope)
        PROVE  Covered(st', b, 0)
    BY <1>1, <1>5, CreateCovers DEF Create
  <1>6. ASSUME NEW who \in Accounts, NEW a \in Accounts, NEW p \in PermissionIds,
               NEW scope \in Scopes, Assign(who, a, p, scope)
        PROVE  Covered(st', b, 0)
    BY <1>1, <1>6, AssignCovers DEF Assign
  <1>7. ASSUME NEW a \in Accounts, AddProvider(a) \/ RemoveProvider(a)
        PROVE  Covered(st', b, 0)
    <2>1. /\ st'.owners = st.owners /\ st'.held = st.held
          /\ st'.consumers = st.consumers
      BY <1>1, <1>7 DEF AddProvider, RemoveProvider, IncProviders, DecProviders, Storage
    <2>2. ReferencesNeeded(st', b) = ReferencesNeeded(st, b)
      BY <2>1, NeededFrom
    <2> QED
      BY <1>1, <2>1, <2>2 DEF Covered
  <1> QED
    BY <1>2, <1>3, <1>4, <1>5, <1>6, <1>7 DEF Next

\* Every place in a list of owners and every holder of permissions has a consumer
\* reference, whatever calls come in whatever order: only a transfer to an account
\* that does not exist, whose caller keeps what it wrote, leaves a place without.
THEOREM RolesStayReferenced == Spec => RolesAreReferenced
  <1>1. Good(st) /\ Good(st)' /\ [Next]_vars
        => [ReferencesCovered(st) /\ ~TransferLeftPartWritten
            => ReferencesCovered(st')]_vars
    BY StepCovers
  <1>2. RolesAreReferenced <=>
           [][ReferencesCovered(st) /\ ~TransferLeftPartWritten
              => ReferencesCovered(st')]_vars
    BY DEF RolesAreReferenced
  <1> QED
    BY <1>1, <1>2, Invariant, PTL DEF Spec
=============================================================================
