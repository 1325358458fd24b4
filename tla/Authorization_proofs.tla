------------------------- MODULE Authorization_proofs -------------------------
(***************************************************************************)
(* Proofs about Access and Power.  For every set of well-ordered routes    *)
(* and every change of the world: a handler runs only on evidence, and no  *)
(* gate reads an empty context.  For every registry: the parts of Jinbe    *)
(* that judge a group agree.                                               *)
(***************************************************************************)
EXTENDS Access, Power, FiniteSetTheorems, TLAPS

-----------------------------------------------------------------------------
(* Access: the gates of a request.                                         *)

\* What the request carries was true at some moment of it.
Sampled ==
  /\ world.facts \subseteq held.facts /\ world.perms \subseteq held.perms
  /\ world.service \in held.services
  /\ "email" \in ctx => held.facts \cap {"session", "machine"} # {} /\ cred # {}
  /\ "aal2" \in ctx => "aal2" \in held.facts /\ "cookie" \in cred

\* The gates passed so far have evidence for the service s, and so has every
\* permission of the copy that an organization's route has taken.
Past(s) == \A i \in 1..(at - 1) : Evidence(gates[i], s)
Copied(s) ==
  (\E i \in 1..(at - 1) : gates[i] = "ServiceAdmin") =>
    rbac.set /\ \A p \in rbac.perms : <<s, p>> \in held.perms

Backed == \E s \in held.services : Past(s) /\ Copied(s)
Finished == outcome = "handled" => at = Len(gates) + 1

Inv == TypeOK /\ Sampled /\ Backed /\ Finished /\ NeverUninitialised

\* Evidence does not go away: the history of a request only grows.
LEMMA EvidenceGrows ==
  ASSUME NEW g \in Gates, NEW s, Evidence(g, s), cred' = cred,
         held.facts \subseteq held'.facts, held.perms \subseteq held'.perms
  PROVE  Evidence(g, s)'
BY DEF Evidence, Gates

\* The index of the next gate lies within the chain or just behind it.
LEMMA GateType ==
  ASSUME TypeOK
  PROVE  /\ gates \in Seq(Gates) /\ WellOrdered(gates)
         /\ Len(gates) \in Nat /\ at \in Nat \ {0} /\ at <= Len(gates) + 1
         /\ \A i \in 1..Len(gates) : gates[i] \in Gates
         /\ Gate # "none" => at <= Len(gates) /\ Gate = gates[at] /\ Gate \in Gates
         /\ Gate = "none" => at = Len(gates) + 1
<1>1. gates \in Seq(Gates) /\ WellOrdered(gates)
  BY ChainsAssumption DEF TypeOK
<1>2. Len(gates) \in Nat /\ \A i \in 1..Len(gates) : gates[i] \in Gates
  BY <1>1
<1>3. at \in 1..(Len(gates) + 1)
  BY DEF TypeOK
<1>4. "none" \notin Gates
  BY DEF Gates
<1> QED
  BY <1>1, <1>2, <1>3, <1>4 DEF Gate

\* Where an organization's gate is about to read, its service gate has run.
LEMMA ReaderIsInitialised ==
  ASSUME TypeOK, Backed, Gate \in Readers
  PROVE  rbac.set
<1>1. Gate # "none" /\ at <= Len(gates) /\ gates[at] \in Readers /\ WellOrdered(gates) /\ at \in 1..Len(gates)
  BY GateType DEF Readers
<1>2. \E i \in 1..(at - 1) : gates[i] = "ServiceAdmin"
  BY <1>1 DEF WellOrdered
<1> QED
  BY <1>2 DEF Backed, Copied

\* A gate that lets the request on for the same service leaves Backed true,
\* whether it keeps rbacInfo or is the service gate itself.
LEMMA PassKeepsBacked ==
  ASSUME TypeOK, Gate # "none", gates' = gates, cred' = cred, held' = held, at' = at + 1,
         NEW s \in held.services, Past(s), Evidence(Gate, s),
         (\E i \in 1..at : gates[i] = "ServiceAdmin") =>
            rbac'.set /\ \A p \in rbac'.perms : <<s, p>> \in held.perms
  PROVE  Backed'
<1>1. at <= Len(gates) /\ Gate = gates[at] /\ at \in Nat \ {0}
      /\ (\A i \in 1..Len(gates) : gates[i] \in Gates) /\ Len(gates) \in Nat
  BY GateType
<1>2. ASSUME NEW i \in 1..at PROVE Evidence(gates[i], s)'
  <2>1. Evidence(gates[i], s)
    BY <1>1 DEF Past
  <2> QED
    BY <1>1, <2>1, EvidenceGrows
<1>3. Past(s)'
  BY <1>1, <1>2 DEF Past
<1>4. Copied(s)'
  BY <1>1 DEF Copied
<1> QED
  BY <1>3, <1>4 DEF Backed

LEMMA TypeAtInit == Init => TypeOK
<1> SUFFICES ASSUME Init PROVE TypeOK
  OBVIOUS
<1>1. Len(gates) \in Nat
  BY ChainsAssumption DEF Init
<1> QED
  BY <1>1, WorldAssumption, MaxChangesAssumption DEF Init, TypeOK, World, NoRbac, Witness, Outcomes

LEMMA TypeStep ==
  ASSUME TypeOK, [Next]_vars
  PROVE  TypeOK'
<1> USE DEF TypeOK
<1>g. Len(gates) \in Nat /\ at \in Nat /\ (Gate # "none" => at <= Len(gates))
  BY GateType
<1>1. CASE UNCHANGED vars
  BY <1>1 DEF vars
<1>2. CASE Change
  <2>1. world' \in World
    BY <1>2 DEF Change, World, Flip
  <2>2. held' \in [facts : SUBSET Facts, perms : SUBSET (Services \X Permissions), services : SUBSET Services]
    BY <1>2, <2>1 DEF Change, Remember, World
  <2>3. changes' \in 0..MaxChanges
    BY <1>2, MaxChangesAssumption DEF Change
  <2> QED
    BY <1>2, <2>1, <2>2, <2>3 DEF Change
<1>3. CASE ReviewToken
  BY <1>3 DEF ReviewToken
<1>4. CASE ValidateSession
  BY <1>4 DEF ValidateSession
<1>5. CASE CheckGate
  <2>1. UserInfo(App) \in [set : BOOLEAN, groups : SUBSET GroupFacts, perms : SUBSET Permissions]
        /\ UserInfo(world.service) \in [set : BOOLEAN, groups : SUBSET GroupFacts, perms : SUBSET Permissions]
    BY DEF UserInfo, PermsOn
  <2>2. rbac' \in [set : BOOLEAN, groups : SUBSET GroupFacts, perms : SUBSET Permissions]
    BY <1>5, <2>1 DEF CheckGate, NotAuthenticated, CheckSession, CheckToken, CheckGroups, CheckAdmin, CheckSuperAdmin, CheckReviewer,
       CheckRole, CheckMfa, CheckService, CheckOrg, CheckPermission, OpaFails, Handle
  <2>3. at' \in 1..(Len(gates) + 1) /\ outcome' \in Outcomes
    BY <1>5, <1>g DEF CheckGate, NotAuthenticated, CheckSession, CheckToken, CheckGroups, CheckAdmin, CheckSuperAdmin, CheckReviewer,
       CheckRole, CheckMfa, CheckService, CheckOrg, CheckPermission, OpaFails, Handle, Next1, Refuse,
       Outcomes, Refusals, NeedsEmail, AsksOpa, Fillers
  <2> QED
    BY <1>5, <2>2, <2>3 DEF CheckGate, NotAuthenticated, CheckSession, CheckToken, CheckGroups, CheckAdmin, CheckSuperAdmin, CheckReviewer,
       CheckRole, CheckMfa, CheckService, CheckOrg, CheckPermission, OpaFails, Handle, Ready
<1> QED
  BY <1>1, <1>2, <1>3, <1>4, <1>5 DEF Next

LEMMA InvAtInit == Init => Inv
<1> SUFFICES ASSUME Init PROVE Inv
  OBVIOUS
<1>1. Sampled
  BY DEF Init, Sampled, Witness
<1>2. world.service \in held.services /\ 1..(at - 1) = {}
  BY DEF Init, Witness
<1>3. Past(world.service) /\ Copied(world.service)
  BY <1>2 DEF Past, Copied
<1>4. Finished /\ NeverUninitialised
  BY DEF Init, Finished, NeverUninitialised
<1> QED
  BY <1>1, <1>2, <1>3, <1>4, TypeAtInit DEF Inv, Backed

\* Only the gates of an organization's route depend on the service.
LEMMA EvidenceAnyService ==
  ASSUME NEW g \in Gates \ (Readers \cup {"ServiceAdmin"}), NEW s, NEW t, Evidence(g, s)
  PROVE  Evidence(g, t)
BY DEF Evidence, Gates, Readers

\* Before a gate that fills rbacInfo no service gate has run.
LEMMA FillerIsFirst ==
  ASSUME TypeOK, Gate \in Fillers
  PROVE  /\ \A i \in 1..(at - 1) : gates[i] \notin Readers \cup {"ServiceAdmin"}
         /\ Gate # "ServiceAdmin" => \A i \in 1..at : gates[i] # "ServiceAdmin"
<1>1. /\ Gate # "none" /\ at \in 1..Len(gates) /\ gates[at] = Gate
      /\ WellOrdered(gates) /\ Len(gates) \in Nat
  BY GateType DEF Fillers
<1>2. \A i \in 1..Len(gates) : gates[i] = "ServiceAdmin" => i = at
  BY <1>1 DEF WellOrdered
<1>3. ASSUME NEW i \in 1..(at - 1), gates[i] \in Readers PROVE FALSE
  <2>1. i \in 1..Len(gates)
    BY <1>1
  <2>2. PICK k \in 1..(i - 1) : gates[k] = "ServiceAdmin"
    BY <1>1, <1>3, <2>1 DEF WellOrdered
  <2> QED
    BY <1>1, <1>2, <2>2
<1> QED
  BY <1>1, <1>2, <1>3

LEMMA StopKeepsBacked ==
  ASSUME TypeOK, Backed, UNCHANGED <<gates, cred, held, at>>, UNCHANGED rbac \/ Gate \in Fillers
  PROVE  Backed'
<1>1. PICK s \in held.services : Past(s) /\ Copied(s)
  BY DEF Backed
<1>2. at \in Nat
  BY GateType
<1>3. Past(s)'
  BY <1>1 DEF Past, Evidence
<1>4. CASE UNCHANGED rbac
  BY <1>1, <1>3, <1>4 DEF Backed, Copied
<1>5. CASE Gate \in Fillers
  BY <1>1, <1>2, <1>3, <1>5, FillerIsFirst DEF Backed, Copied
<1> QED
  BY <1>4, <1>5

\* The gates that leave rbacInfo alone let the request on with evidence for
\* every service that the earlier gates have evidence for.
LEMMA PassUnfilled ==
  ASSUME TypeOK, Backed, Gate \in Gates \ {"ServiceAdmin"}, UNCHANGED <<gates, cred, held, rbac>>, at' = at + 1,
         \A s \in held.services : Past(s) /\ Copied(s) => Evidence(Gate, s)
  PROVE  Backed'
<1>1. PICK s \in held.services : Past(s) /\ Copied(s)
  BY DEF Backed
<1>2. Gate # "none" /\ at \in Nat /\ Gate = gates[at]
  BY GateType DEF Gates
<1>3. (\E i \in 1..at : gates[i] = "ServiceAdmin") =>
         rbac'.set /\ \A p \in rbac'.perms : <<s, p>> \in held.perms
  BY <1>1, <1>2 DEF Copied
<1> QED
  BY <1>1, <1>2, <1>3, PassKeepsBacked

\* So do the gates that fill it for the console's own service.
LEMMA PassFilled ==
  ASSUME TypeOK, Backed, Gate \in Fillers \ {"ServiceAdmin"}, UNCHANGED <<gates, cred, held>>, at' = at + 1,
         \A s \in held.services : Evidence(Gate, s)
  PROVE  Backed'
<1>1. PICK s \in held.services : Past(s)
  BY DEF Backed
<1>2. Gate # "none" /\ at \in Nat
  BY GateType DEF Fillers
<1>3. \A i \in 1..at : gates[i] # "ServiceAdmin"
  BY FillerIsFirst
<1> QED
  BY <1>1, <1>2, <1>3, PassKeepsBacked

LEMMA InvStep ==
  ASSUME Inv, [Next]_vars
  PROVE  Inv'
<1> USE DEF Inv
<1>0. TypeOK'
  BY TypeStep
<1>g. /\ (Gate # "none" => at <= Len(gates) /\ Gate = gates[at] /\ at \in 1..Len(gates))
      /\ (Gate = "none" => at = Len(gates) + 1) /\ at \in Nat /\ WellOrdered(gates)
      /\ Len(gates) \in Nat /\ at <= Len(gates) + 1
      /\ \A i \in 1..Len(gates) : gates[i] \in Gates
  BY GateType
<1>1. CASE UNCHANGED vars
  <2>1. UNCHANGED <<gates, cred, world, held, at, ctx, rbac, outcome>>
    BY <1>1 DEF vars
  <2>2. Sampled'
    BY <2>1 DEF Sampled
  <2>3. Backed'
    <3>1. \A g, s : Evidence(g, s)' <=> Evidence(g, s)
      BY <2>1 DEF Evidence
    <3>2. \A s : (Past(s)' <=> Past(s)) /\ (Copied(s)' <=> Copied(s))
      BY <2>1, <3>1 DEF Past, Copied
    <3> QED
      BY <2>1, <3>2 DEF Backed
  <2>4. Finished' /\ NeverUninitialised'
    BY <2>1 DEF Finished, NeverUninitialised
  <2> QED
    BY <1>0, <2>2, <2>3, <2>4
<1>2. CASE Change
  <2>1. /\ held.facts \subseteq held'.facts /\ held.perms \subseteq held'.perms
        /\ held.services \subseteq held'.services /\ world'.facts \subseteq held'.facts
        /\ world'.perms \subseteq held'.perms /\ world'.service \in held'.services
    BY <1>2 DEF Change, Remember
  <2>2. UNCHANGED <<gates, cred, at, ctx, rbac, outcome>>
    BY <1>2 DEF Change
  <2>3. Sampled'
    BY <2>1, <2>2 DEF Sampled
  <2>4. PICK s \in held.services : Past(s) /\ Copied(s)
    BY DEF Backed
  <2>5. \A i \in 1..(at - 1) : Evidence(gates[i], s)'
    BY <1>g, <2>1, <2>2, <2>4, EvidenceGrows DEF Past
  <2>6. Past(s)' /\ Copied(s)'
    BY <2>1, <2>2, <2>4, <2>5 DEF Past, Copied
  <2> QED
    BY <1>0, <2>1, <2>2, <2>3, <2>6 DEF Backed, Finished, NeverUninitialised
<1>3. CASE ReviewToken
  <2>1. UNCHANGED <<gates, cred, world, held, at, rbac, outcome>>
    BY <1>3 DEF ReviewToken
  <2>2. Sampled'
    BY <1>3, <2>1 DEF ReviewToken, Sampled
  <2>3. Backed'
    BY <2>1, StopKeepsBacked
  <2> QED
    BY <1>0, <2>1, <2>2, <2>3 DEF Finished, NeverUninitialised
<1>4. CASE ValidateSession
  <2>1. UNCHANGED <<gates, cred, world, held, at, rbac, outcome>>
    BY <1>4 DEF ValidateSession
  <2>2. Sampled'
    BY <1>4, <2>1 DEF ValidateSession, Sampled
  <2>3. Backed'
    BY <2>1, StopKeepsBacked
  <2> QED
    BY <1>0, <2>1, <2>2, <2>3 DEF Finished, NeverUninitialised
<1>5. CASE CheckGate
  <2>1. UNCHANGED <<gates, cred, world, held, changes, stage, ctx>>
    BY <1>5 DEF CheckGate, NotAuthenticated, CheckSession, CheckToken, CheckGroups, CheckAdmin, CheckSuperAdmin, CheckReviewer,
       CheckRole, CheckMfa, CheckService, CheckOrg, CheckPermission, OpaFails, Handle, Ready
  <2>2. Sampled'
    BY <2>1 DEF Sampled
  <2>3. outcome = "open"
    BY <1>5 DEF CheckGate, NotAuthenticated, CheckSession, CheckToken, CheckGroups, CheckAdmin, CheckSuperAdmin, CheckReviewer,
       CheckRole, CheckMfa, CheckService, CheckOrg, CheckPermission, OpaFails, Handle, Ready
  <2>4. ASSUME UNCHANGED at, UNCHANGED rbac \/ Gate \in Fillers,
               outcome' \in {"unauthenticated", "forbidden", "reauth", "unavailable"}
        PROVE  Inv'
    BY <1>0, <2>1, <2>2, <2>4, StopKeepsBacked DEF Finished, NeverUninitialised
  <2>5. ASSUME Backed', UNCHANGED outcome PROVE Inv'
    BY <1>0, <2>1, <2>2, <2>3, <2>5 DEF Finished, NeverUninitialised
  <2>6. Gate \in Gates => Gate # "none"
    BY DEF Gates
  <2>7. CASE NotAuthenticated
    BY <2>4, <2>7 DEF NotAuthenticated, Refuse
  <2>8. CASE CheckSession
    BY <2>1, <2>5, <2>8, PassUnfilled DEF CheckSession, Next1, Evidence, Sampled, Gates
  <2>9. CASE CheckToken
    <3>1. CASE Refuse("unauthenticated") /\ UNCHANGED rbac
      BY <2>4, <3>1 DEF Refuse
    <3>2. CASE Next1 /\ Gate = "Scim" /\ "scimToken" \in world.facts /\ UNCHANGED rbac
      BY <2>1, <2>5, <3>2, PassUnfilled DEF Next1, Evidence, Sampled, Gates
    <3>3. CASE Next1 /\ Gate = "Secret" /\ "secret" \in world.facts /\ UNCHANGED rbac
      BY <2>1, <2>5, <3>3, PassUnfilled DEF Next1, Evidence, Sampled, Gates
    <3> QED
      BY <2>9, <3>1, <3>2, <3>3 DEF CheckToken
  <2>10. ASSUME NEW g \in {"Admin", "SuperGroup"}, CheckGroups(g) PROVE Inv'
    <3>1. Gate \in Fillers \ {"ServiceAdmin"} /\ UserInfo(App).groups \subseteq held.facts /\ rbac' = UserInfo(App)
      BY <2>10 DEF CheckGroups, Fillers, UserInfo, Sampled
    <3>2. CASE Refuse("forbidden")
      BY <2>4, <3>1, <3>2 DEF Refuse
    <3>3. CASE Next1 /\ rbac'.groups \cap Named(Gate) # {}
      <4>1. \A s \in held.services : Evidence(Gate, s)
        BY <2>10, <3>1, <3>3 DEF CheckGroups, Evidence, Named
      <4> QED
        BY <2>1, <2>5, <3>1, <3>3, <4>1, PassFilled DEF Next1
    <3> QED
      BY <2>10, <3>2, <3>3 DEF CheckGroups
  <2>11. CASE CheckReviewer
    <3>1. Gate \in Fillers \ {"ServiceAdmin"} /\ UserInfo(App).groups \subseteq held.facts
          /\ Gate = "ReviewerOrAdmin" /\ Gate \in Gates
      BY <2>11 DEF CheckReviewer, Fillers, UserInfo, Sampled, Gates
    <3>2. CASE Refuse("forbidden")
      BY <2>4, <3>1, <3>2 DEF Refuse
    <3>3. CASE Next1 /\ "reviewer" \in world.facts
      <4>1. \A s \in held.services : Evidence(Gate, s)
        BY <3>1, <3>3 DEF Evidence, Sampled
      <4> QED
        BY <2>1, <2>5, <3>1, <3>3, <4>1, PassFilled DEF Next1
    <3>4. CASE Next1 /\ rbac' = UserInfo(App) /\ rbac'.groups \cap Named(Gate) # {}
      <4>1. \A s \in held.services : Evidence(Gate, s)
        BY <3>1, <3>4 DEF Evidence, Named
      <4> QED
        BY <2>1, <2>5, <3>1, <3>4, <4>1, PassFilled DEF Next1
    <3> QED
      BY <2>11, <3>2, <3>3, <3>4 DEF CheckReviewer
  <2>12. CASE CheckRole
    <3>1. CASE Refuse("forbidden")
      BY <2>4, <2>12, <3>1 DEF CheckRole, Refuse
    <3>2. CASE Next1 /\ "superRole" \in world.facts
      BY <2>1, <2>5, <2>12, <3>2, PassUnfilled DEF CheckRole, Next1, Evidence, Sampled, Gates
    <3> QED
      BY <2>12, <3>1, <3>2 DEF CheckRole
  <2>13. CASE CheckMfa
    <3>1. CASE Refuse("reauth")
      BY <2>4, <2>13, <3>1 DEF CheckMfa, Refuse
    <3>2. CASE Next1 /\ "aal2" \in ctx
      BY <2>1, <2>5, <2>13, <3>2, PassUnfilled DEF CheckMfa, Next1, Evidence, Sampled, Gates
    <3> QED
      BY <2>13, <3>1, <3>2 DEF CheckMfa
  <2>14. CASE CheckService
    <3>1. Gate = "ServiceAdmin" /\ Gate \in Fillers /\ Gate \in Gates /\ rbac' = UserInfo(world.service)
      BY <2>14 DEF CheckService, Fillers, Gates
    <3>2. CASE Refuse("forbidden")
      BY <2>4, <3>1, <3>2 DEF Refuse
    <3>3. CASE Next1 /\ rbac'.perms # {}
      <4>1. PICK s \in held.services : Past(s)
        BY DEF Backed
      <4>2. world.service \in held.services
            /\ rbac'.set /\ \A p \in rbac'.perms : p \in Permissions /\ <<world.service, p>> \in held.perms
        BY <3>1 DEF UserInfo, PermsOn, Sampled
      <4>3. Evidence(Gate, world.service)
        BY <3>1, <3>3, <4>2 DEF Evidence
      <4>4. ASSUME NEW i \in 1..(at - 1) PROVE Evidence(gates[i], world.service)
        <5>1. gates[i] \in Gates \ (Readers \cup {"ServiceAdmin"}) /\ Evidence(gates[i], s)
          BY <1>g, <3>1, <4>1, FillerIsFirst DEF Past
        <5> QED
          BY <5>1, EvidenceAnyService
      <4>5. Past(world.service)
        BY <4>4 DEF Past
      <4> QED
        BY <2>1, <2>5, <2>6, <3>1, <3>3, <4>2, <4>3, <4>5, PassKeepsBacked DEF Next1
    <3> QED
      BY <2>14, <3>2, <3>3 DEF CheckService
  <2>15. CASE CheckOrg
    <3>1. Gate = "ManageableOrg" /\ rbac.set /\ Gate \in Readers /\ Gate \in Gates
      BY <2>15, ReaderIsInitialised DEF CheckOrg, Readers, Gates
    <3>2. CASE Refuse("forbidden") \/ Refuse("unauthenticated")
      BY <2>4, <2>15, <3>2 DEF CheckOrg, Refuse
    <3>3. CASE Next1 /\ ("*" \in rbac.perms \/ "manages" \in world.facts)
      <4>1. \E i \in 1..(at - 1) : gates[i] = "ServiceAdmin"
        BY <1>g, <3>1, <2>6 DEF WellOrdered
      <4>2. \A s \in held.services : Past(s) /\ Copied(s) => Evidence(Gate, s)
        BY <3>1, <3>3, <4>1 DEF Copied, Evidence, Sampled
      <4> QED
        BY <2>1, <2>5, <2>15, <3>1, <3>3, <4>2, PassUnfilled DEF CheckOrg, Next1
    <3> QED
      BY <2>15, <3>1, <3>2, <3>3 DEF CheckOrg
  <2>16. CASE CheckPermission
    <3>1. Gate = "AssignPermission" /\ rbac.set /\ Gate \in Readers /\ Gate \in Gates
      BY <2>16, ReaderIsInitialised DEF CheckPermission, Readers, Gates
    <3>2. CASE Refuse("forbidden")
      BY <2>4, <2>16, <3>2 DEF CheckPermission, Refuse
    <3>3. CASE Next1 /\ rbac.perms \cap {"*", "users:assign_group"} # {}
      <4>1. \E i \in 1..(at - 1) : gates[i] = "ServiceAdmin"
        BY <1>g, <3>1, <2>6 DEF WellOrdered
      <4>2. \A s \in held.services : Past(s) /\ Copied(s) => Evidence(Gate, s)
        BY <3>1, <3>3, <4>1 DEF Copied, Evidence
      <4> QED
        BY <2>1, <2>5, <2>16, <3>1, <3>3, <4>2, PassUnfilled DEF CheckPermission, Next1
    <3> QED
      BY <2>16, <3>1, <3>2, <3>3 DEF CheckPermission
  <2>17. CASE OpaFails
    BY <2>4, <2>17 DEF OpaFails
  <2>18. CASE Handle
    <3>1. Backed'
      BY <2>1, <2>18, StopKeepsBacked DEF Handle
    <3> QED
      BY <1>0, <1>g, <2>1, <2>2, <2>18, <3>1 DEF Handle, Finished, NeverUninitialised
  <2> QED
    BY <1>5, <2>7, <2>8, <2>9, <2>10, <2>11, <2>12, <2>13, <2>14, <2>15, <2>16, <2>17, <2>18
    DEF CheckGate, CheckAdmin, CheckSuperAdmin
<1> QED
  BY <1>1, <1>2, <1>3, <1>4, <1>5 DEF Next

\* Every variable of a request keeps its type, whatever the world does.
THEOREM TypeCorrect == Spec => []TypeOK
<1>1. TypeOK /\ [Next]_vars => TypeOK'
  BY TypeStep
<1> QED
  BY <1>1, TypeAtInit, PTL DEF Spec

\* A handler runs only if every gate of its route let the request through on
\* evidence, the organization's gates for one and the same service.
THEOREM OnlyOnEvidence == Spec => []HandledIsAuthorised
<1>1. Inv /\ [Next]_vars => Inv'
  BY InvStep
<1>2. Inv => HandledIsAuthorised
  <2> SUFFICES ASSUME Inv, outcome = "handled"
               PROVE  \E s \in held.services : \A i \in 1..Len(gates) : Evidence(gates[i], s)
    BY DEF HandledIsAuthorised
  <2>1. at = Len(gates) + 1 /\ Len(gates) \in Nat
    BY GateType DEF Inv, Finished
  <2> QED
    BY <2>1 DEF Inv, Backed, Past
<1> QED
  BY <1>1, <1>2, InvAtInit, PTL DEF Spec

\* On well-ordered routes no gate reads an rbacInfo that was never filled.
THEOREM ContextIsInitialised == Spec => []NeverUninitialised
<1>1. Inv /\ [Next]_vars => Inv'
  BY InvStep
<1>2. Inv => NeverUninitialised
  BY DEF Inv
<1> QED
  BY <1>1, <1>2, InvAtInit, PTL DEF Spec

-----------------------------------------------------------------------------
(* Power: the gates, the counts and the review.                            *)

(* The gate of the assignment and the counts of the directory are two programs   *)
(* for one set: the groups for which the endpoint asks for a super_admin are     *)
(* those whose members the dashboard shows with full access.                     *)
THEOREM AdminPowerIsWildcard ==
  ASSUME NEW reg, NEW g
  PROVE  GroupGrantsAdminPower(reg, g) <=> g \in WildcardGroupNames(reg)
<1>. CASE g \notin DOMAIN reg.groups
  BY DEF GroupGrantsAdminPower, WildcardGroupNames
<1>. CASE g \in DOMAIN reg.groups
  <2>. DEFINE def == reg.groups[g]
  <2>1. DefGrantsGlobalPower(reg, def)
          <=> Global \in DOMAIN def
                /\ \E r \in def[Global] : r = SuperAdmin \/ Wild(reg, Global, r)
    BY DEF DefGrantsGlobalPower, Bound, None
  <2>2. GroupGrantsAdminPower(reg, g)
          <=> \/ DefGrantsGlobalPower(reg, def)
              \/ \E s \in DOMAIN def \ {Global} : \E r \in def[s] : Wild(reg, s, r)
    BY DEF GroupGrantsAdminPower
  <2>3. g \in WildcardGroupNames(reg)
          <=> \E s \in DOMAIN def : \E r \in def[s] :
                 (s = Global /\ r = SuperAdmin) \/ Wild(reg, s, r)
    BY DEF WildcardGroupNames
  <2>. HIDE DEF def
  <2>. QED  BY <2>1, <2>2, <2>3
<1>. QED  OBVIOUS

(* The review and the gate of the tenant boundary mean the same by global power. *)
LEMMA GlobalPowerAgrees ==
  ASSUME NEW reg, NEW g \in DOMAIN reg.groups
  PROVE  GlobalPower(reg, g) <=> GroupGrantsGlobalPower(reg, g)
BY DEF GlobalPower, GroupGrantsGlobalPower, DefGrantsGlobalPower

LEMMA UserGlobalPowerAgrees ==
  ASSUME NEW reg, NEW gs
  PROVE  UserGlobalPower(reg, gs) <=> \E g \in gs : GroupGrantsGlobalPower(reg, g)
BY GlobalPowerAgrees DEF UserGlobalPower, Defined, GroupGrantsGlobalPower

LEMMA TierRange ==
  ASSUME NEW reg, NEW gs, NEW o \in BOOLEAN
  PROVE  /\ Tier(reg, gs, o) \in 0 .. 4
         /\ Tier(reg, gs, o) = 0 <=> UserGlobalPower(reg, gs)
         /\ Tier(reg, gs, o) <= 1
              <=> UserGlobalPower(reg, gs) \/ UserWildcards(reg, gs) # None
         /\ Tier(reg, gs, o) <= 2
              <=> UserGlobalPower(reg, gs) \/ UserWildcards(reg, gs) # None \/ o
         /\ Tier(reg, gs, o) <= 3
              <=> \/ UserGlobalPower(reg, gs) \/ UserWildcards(reg, gs) # None \/ o
                  \/ Cardinality(Reached(reg, gs)) >= BroadReachMin
<1>1. CASE UserGlobalPower(reg, gs)  BY <1>1 DEF Tier
<1>2. CASE ~UserGlobalPower(reg, gs) /\ UserWildcards(reg, gs) # None  BY <1>2 DEF Tier
<1>3. CASE ~UserGlobalPower(reg, gs) /\ UserWildcards(reg, gs) = None /\ o  BY <1>3 DEF Tier
<1>4. CASE ~UserGlobalPower(reg, gs) /\ UserWildcards(reg, gs) = None /\ ~o
  BY <1>4 DEF Tier, NotPrivileged
<1>. QED  BY <1>1, <1>2, <1>3, <1>4

(* Whoever the review ranks T0 holds a group that only a super_admin could give,  *)
(* and the reverse: no part of the code calls somebody a super-admin whom the     *)
(* tenant boundary (finding J1) would let an organization's administrator make.   *)
THEOREM TierZeroIsGlobal ==
  ASSUME NEW reg, NEW gs, NEW o \in BOOLEAN
  PROVE  Tier(reg, gs, o) = 0 <=> \E g \in gs : GroupGrantsGlobalPower(reg, g)
BY TierRange, UserGlobalPowerAgrees

LEMMA WildcardsOfUser ==
  ASSUME NEW reg, NEW gs
  PROVE  UserGlobalPower(reg, gs) \/ UserWildcards(reg, gs) # None
           <=> FullAccess(reg, gs)
<1>1. ASSUME NEW g \in DOMAIN reg.groups
      PROVE  GlobalPower(reg, g) \/ WildcardServices(reg, g) # None
               <=> GroupGrantsAdminPower(reg, g)
  BY GlobalPowerAgrees
  DEF WildcardServices, None, GroupGrantsAdminPower, GroupGrantsGlobalPower
<1>2. UserGlobalPower(reg, gs) \/ UserWildcards(reg, gs) # None
        <=> \E g \in Defined(reg, gs) :
              GlobalPower(reg, g) \/ WildcardServices(reg, g) # None
  BY DEF UserGlobalPower, UserWildcards, None
<1>3. FullAccess(reg, gs) <=> \E g \in Defined(reg, gs) : GroupGrantsAdminPower(reg, g)
  BY AdminPowerIsWildcard DEF FullAccess, Defined, None, GroupGrantsAdminPower
<1>. QED  BY <1>1, <1>2, <1>3 DEF Defined

(* The dashboard's count of full access is the review's count of T0 and T1.       *)
THEOREM TierOneIsFullAccess ==
  ASSUME NEW reg, NEW gs, NEW o \in BOOLEAN
  PROVE  Tier(reg, gs, o) <= 1 <=> FullAccess(reg, gs)
BY TierRange, WildcardsOfUser

-----------------------------------------------------------------------------
(* More groups never rank lower.                                               *)

LEMMA PowerGrows ==
  ASSUME NEW reg, NEW gs, NEW hs, gs \subseteq hs
  PROVE  /\ UserGlobalPower(reg, gs) => UserGlobalPower(reg, hs)
         /\ UserWildcards(reg, gs) \subseteq UserWildcards(reg, hs)
         /\ Reached(reg, gs) \subseteq Reached(reg, hs)
<1>1. Defined(reg, gs) \subseteq Defined(reg, hs)  BY DEF Defined
<1>2. UserGlobalPower(reg, gs) => UserGlobalPower(reg, hs)  BY <1>1 DEF UserGlobalPower
<1>3. UserWildcards(reg, gs) \subseteq UserWildcards(reg, hs)  BY <1>1 DEF UserWildcards
<1>4. Reached(reg, gs) \subseteq Reached(reg, hs)  BY <1>1, <1>2 DEF Reached, None
<1>. QED  BY <1>2, <1>3, <1>4

(* A further group or a place on a roster never makes the review rank a user as   *)
(* less powerful: none of the ladder's branches hides the next one's condition.   *)
THEOREM MoreGroupsNeverRankLower ==
  ASSUME NEW reg, NEW gs, NEW hs, gs \subseteq hs,
         NEW o \in BOOLEAN, NEW q \in BOOLEAN, o => q,
         IsFiniteSet(Reached(reg, hs))
  PROVE  Tier(reg, hs, q) <= Tier(reg, gs, o)
<1>. DEFINE nG == Cardinality(Reached(reg, gs))
            nH == Cardinality(Reached(reg, hs))
<1>1. nG \in Nat /\ nH \in Nat /\ nG <= nH
  <2>. DEFINE G == Reached(reg, gs)
              H == Reached(reg, hs)
  <2>1. G \in SUBSET H  BY PowerGrows
  <2>2. IsFiniteSet(H)  OBVIOUS
  <2>. HIDE DEF G, H
  <2>3. IsFiniteSet(G) /\ Cardinality(G) <= Cardinality(H)  BY <2>1, <2>2, FS_Subset
  <2>4. Cardinality(G) \in Nat /\ Cardinality(H) \in Nat  BY <2>2, <2>3, FS_CardinalityType
  <2>. QED  BY <2>3, <2>4 DEF G, H
<1>2. Tier(reg, gs, o) <= 0 => Tier(reg, hs, q) <= 0
  BY TierRange, PowerGrows
<1>3. Tier(reg, gs, o) <= 1 => Tier(reg, hs, q) <= 1
  BY TierRange, PowerGrows DEF None
<1>4. Tier(reg, gs, o) <= 2 => Tier(reg, hs, q) <= 2
  BY TierRange, PowerGrows DEF None
<1>5. Tier(reg, gs, o) <= 3 => Tier(reg, hs, q) <= 3
  <2>1. nG >= BroadReachMin => nH >= BroadReachMin  BY <1>1 DEF BroadReachMin
  <2>. QED  BY <2>1, TierRange, PowerGrows DEF None
<1>6. Tier(reg, gs, o) \in 0 .. 4 /\ Tier(reg, hs, q) \in 0 .. 4  BY TierRange
<1>. HIDE DEF nG, nH
<1>. QED  BY <1>2, <1>3, <1>4, <1>5, <1>6
-----------------------------------------------------------------------------
(* Groups that confer nothing.                                                 *)

(* isEmptyGroup is asked so that the demotion to the base group may skip the      *)
(* delegation gate.  What it answers for is true everywhere: with such a group a  *)
(* user resolves to the same roles in every application, and ranks the same.      *)
THEOREM EmptyGroupIsNothing ==
  ASSUME NEW reg, NEW g, IsEmptyGroup(reg, g), NEW gs, NEW app, NEW o \in BOOLEAN
  PROVE  /\ ResolveRoles(reg, gs \cup {g}, app) = ResolveRoles(reg, gs, app)
         /\ Tier(reg, gs \cup {g}, o) = Tier(reg, gs, o)
<1>. DEFINE hs == gs \cup {g}
<1>1. ASSUME NEW h \in DOMAIN reg.groups, h = g
      PROVE  /\ \A s : Bound(reg.groups[h], s) = None
             /\ ~GlobalPower(reg, h)
             /\ WildcardServices(reg, h) = None
             /\ GrantedServices(reg, h) = None
  BY <1>1 DEF IsEmptyGroup, Bound, GlobalPower, WildcardServices, GrantedServices, None
<1>2. Defined(reg, gs) \subseteq Defined(reg, hs)
        /\ Defined(reg, hs) \subseteq Defined(reg, gs) \cup {g}
        /\ Defined(reg, hs) \subseteq DOMAIN reg.groups
  BY DEF Defined
<1>3. ResolveRoles(reg, hs, app) = ResolveRoles(reg, gs, app)
  <2>. DEFINE B(h) == Bound(reg.groups[h], Global) \cup Bound(reg.groups[h], app)
  <2>1. \A h \in Defined(reg, hs) : h = g => B(h) = {}
    BY <1>1, <1>2 DEF None
  <2>. HIDE DEF B
  <2>2. UNION {B(h) : h \in Defined(reg, hs)} = UNION {B(h) : h \in Defined(reg, gs)}
    <3>1. ASSUME NEW x, NEW h \in Defined(reg, hs), x \in B(h)
          PROVE  h \in Defined(reg, gs)
      BY <1>2, <2>1, <3>1
    <3>. QED  BY <1>2, <3>1
  <2>. QED  BY <2>2 DEF ResolveRoles, B
<1>4. UserGlobalPower(reg, hs) = UserGlobalPower(reg, gs)
  BY <1>1, <1>2 DEF UserGlobalPower
<1>5. UserWildcards(reg, hs) = UserWildcards(reg, gs)
  BY <1>1, <1>2 DEF UserWildcards, None
<1>6. Reached(reg, hs) = Reached(reg, gs)
  <2>1. UNION {GrantedServices(reg, h) : h \in Defined(reg, hs)}
          = UNION {GrantedServices(reg, h) : h \in Defined(reg, gs)}
    BY <1>1, <1>2 DEF None
  <2>. QED  BY <2>1, <1>4 DEF Reached
<1>7. Tier(reg, hs, o) = Tier(reg, gs, o)  BY <1>4, <1>5, <1>6 DEF Tier
<1>. QED  BY <1>3, <1>7

-----------------------------------------------------------------------------
(* The resolver.                                                               *)

LEMMA ResolvedFrom ==
  ASSUME NEW reg, NEW gs, NEW app, NEW x
  PROVE  x \in ResolvePermissions(reg, gs, app)
           <=> \E g \in Defined(reg, gs) : \E s \in {Global, app} :
                 \E r \in Bound(reg.groups[g], s) :
                   x \in PermsIn(reg, Global, r) \cup PermsIn(reg, app, r)
<1>1. \A r : r \in ResolveRoles(reg, gs, app)
        <=> \E g \in Defined(reg, gs) : \E s \in {Global, app} : r \in Bound(reg.groups[g], s)
  BY DEF ResolveRoles
<1>2. x \in ResolvePermissions(reg, gs, app)
        <=> \E r \in ResolveRoles(reg, gs, app) :
              x \in PermsIn(reg, Global, r) \cup PermsIn(reg, app, r)
  BY DEF ResolvePermissions
<1>. QED  BY <1>1, <1>2

LEMMA ResolvedInScope ==
  ASSUME NEW reg, NEW gs, NEW app, Scoped(reg, app), NEW x
  PROVE  x \in ResolvePermissions(reg, gs, app)
           <=> \E g \in Defined(reg, gs) : \E s \in {Global, app} :
                 \E r \in Bound(reg.groups[g], s) : x \in PermsIn(reg, s, r)
BY ResolvedFrom DEF Scoped, Defined

(* A service in which the review sees a wildcard is one in which the resolver     *)
(* grants everything, and nobody resolves to everything who is not counted with   *)
(* full access, hence whose group was not gated, as long as no role is bound in   *)
(* one scope and defined stronger in the other one.  Without that assumption the  *)
(* second half is false: the resolver looks a role up in both maps.               *)
THEOREM StarIsGated ==
  ASSUME NEW reg, NEW gs, NEW app
  PROVE  /\ app \in UserWildcards(reg, gs) => Star \in ResolvePermissions(reg, gs, app)
         /\ Scoped(reg, app) /\ Star \in ResolvePermissions(reg, gs, app)
              => \E g \in gs : GroupGrantsAdminPower(reg, g)
<1>1. ASSUME app \in UserWildcards(reg, gs)
      PROVE  Star \in ResolvePermissions(reg, gs, app)
  <2>1. PICK g \in Defined(reg, gs) : app \in WildcardServices(reg, g)
    BY <1>1 DEF UserWildcards
  <2>2. PICK r \in Bound(reg.groups[g], app) : Star \in PermsIn(reg, app, r)
    BY <2>1 DEF WildcardServices, Bound, Wild
  <2>. QED  BY <2>2, ResolvedFrom
<1>2. ASSUME Scoped(reg, app), Star \in ResolvePermissions(reg, gs, app)
      PROVE  \E g \in gs : GroupGrantsAdminPower(reg, g)
  <2>1. PICK g \in Defined(reg, gs), s \in {Global, app} :
               \E r \in Bound(reg.groups[g], s) : Wild(reg, s, r)
    BY <1>2, ResolvedInScope DEF Wild
  <2>2. g \in gs /\ g \in DOMAIN reg.groups  BY DEF Defined
  <2>3. s \in DOMAIN reg.groups[g] /\ \E r \in reg.groups[g][s] : Wild(reg, s, r)
    BY <2>1 DEF Bound, None
  <2>4. g \in WildcardGroupNames(reg)  BY <2>2, <2>3 DEF WildcardGroupNames
  <2>. QED  BY <2>2, <2>4, AdminPowerIsWildcard
<1>. QED  BY <1>1, <1>2

(* The count of those who "can't reach anything" is right about the resolver when *)
(* the base group is empty, which is what the bootstrap seeds.                    *)
THEOREM UnassignedIsPowerless ==
  ASSUME NEW reg, IsEmptyGroup(reg, Base), NEW gs, Unassigned(gs), NEW app
  PROVE  ResolvePermissions(reg, gs, app) = None /\ ~FullAccess(reg, gs)
<1>1. \A g \in Defined(reg, gs) : \A s : Bound(reg.groups[g], s) = None
  BY DEF Unassigned, Defined, IsEmptyGroup, Bound, None
<1>2. ResolvePermissions(reg, gs, app) = None  BY <1>1, ResolvedFrom DEF None
<1>3. gs \cap WildcardGroupNames(reg) = None
  BY DEF Unassigned, IsEmptyGroup, WildcardGroupNames, None
<1>. QED  BY <1>2, <1>3 DEF FullAccess
-----------------------------------------------------------------------------
(* The preview of a change.                                                    *)

(* What the proposal leaves alone is the same before and after.                   *)
LEMMA MergeKeeps ==
  ASSUME NEW f, NEW h, NEW x, x \notin DOMAIN h
  PROVE  /\ x \in DOMAIN Merge(f, h) <=> x \in DOMAIN f
         /\ x \in DOMAIN f => Merge(f, h)[x] = f[x]
         /\ Bound(Merge(f, h), x) = Bound(f, x)
BY DEF Merge, Bound

LEMMA UneditedPermissions ==
  ASSUME NEW reg, NEW p, NEW s, s \notin EditedScopes(p), NEW r
  PROVE  PermsIn(MergeProposed(reg, p), s, r) = PermsIn(reg, s, r)
<1>1. s \notin DOMAIN p.roles  BY DEF EditedScopes
<1>2. MergeProposed(reg, p).roles = Merge(reg.roles, p.roles)  BY DEF MergeProposed
<1>. QED  BY <1>1, <1>2, MergeKeeps DEF PermsIn

LEMMA UnchangedGroup ==
  ASSUME NEW reg, NEW p, NEW g, g \notin ChangedGroups(reg, p)
  PROVE  LET new == MergeProposed(reg, p) IN
         /\ g \in DOMAIN new.groups <=> g \in DOMAIN reg.groups
         /\ g \in DOMAIN reg.groups => new.groups[g] = reg.groups[g]
<1>1. MergeProposed(reg, p).groups = Merge(reg.groups, p.groups)  BY DEF MergeProposed
<1>2. CASE g \notin DOMAIN p.groups  BY <1>1, <1>2, MergeKeeps
<1>3. CASE g \in DOMAIN p.groups
  <2>1. g \in DOMAIN reg.groups /\ reg.groups[g] = p.groups[g]
    BY <1>3 DEF ChangedGroups
  <2>2. g \in DOMAIN Merge(reg.groups, p.groups)
          /\ Merge(reg.groups, p.groups)[g] = p.groups[g]
    BY <1>3 DEF Merge
  <2>. QED  BY <1>1, <2>1, <2>2
<1>. QED  BY <1>2, <1>3

(* Whose permissions a proposal changes is among the users it is previewed for,   *)
(* whatever it changes at once (groups, roles, memberships), as long as roles are *)
(* scoped before and after.  A role edited in the global map reaches users who    *)
(* are bound to no global role otherwise, and those are not probed.               *)
THEOREM PreviewAsksForAllUsers ==
  ASSUME NEW reg, NEW members, NEW p, NEW u, NEW app,
         Scoped(reg, app), Scoped(MergeProposed(reg, p), app),
         ResolvePermissions(reg, Bound(members, u), app)
           # ResolvePermissions(MergeProposed(reg, p), NextGroups(members, p, u), app)
  PROVE  u \in AffectedUsers(reg, members, p)
<1>. DEFINE new == MergeProposed(reg, p)
            gs == Bound(members, u)
<1>. SUFFICES ASSUME u \notin AffectedUsers(reg, members, p)
              PROVE  ResolvePermissions(reg, gs, app)
                       = ResolvePermissions(new, NextGroups(members, p, u), app)
  OBVIOUS
<1>1. u \notin DOMAIN p.membership  BY DEF AffectedUsers
<1>2. NextGroups(members, p, u) = gs  BY <1>1, MergeKeeps DEF NextGroups
<1>3. gs \cap ChangedGroups(reg, p) = None  BY DEF AffectedUsers, Bound, None
<1>4. \A g \in gs : /\ g \in DOMAIN new.groups <=> g \in DOMAIN reg.groups
                    /\ g \in DOMAIN reg.groups => new.groups[g] = reg.groups[g]
  BY <1>3, UnchangedGroup DEF None
<1>5. Defined(new, gs) = Defined(reg, gs)  BY <1>4 DEF Defined
<1>6. ASSUME NEW g \in Defined(reg, gs), NEW s \in {Global, app},
             NEW r \in Bound(reg.groups[g], s)
      PROVE  s \notin EditedScopes(p)
  <2>1. u \in DOMAIN members /\ gs = members[u]  BY DEF Defined, Bound, None
  <2>2. s \in DOMAIN reg.groups[g]  BY DEF Bound, None
  <2>3. s \in Keys(reg.groups, gs)  BY <2>2 DEF Keys, Defined
  <2>4. EditedScopes(p) # None => Keys(reg.groups, gs) \cap ({Global} \cup EditedScopes(p)) = None
    BY <2>1 DEF AffectedUsers
  <2>. QED  BY <2>3, <2>4 DEF None
<1>7. ASSUME NEW x
      PROVE  x \in ResolvePermissions(reg, gs, app) <=> x \in ResolvePermissions(new, gs, app)
  <2>1. x \in ResolvePermissions(new, gs, app)
          <=> \E g \in Defined(new, gs) : \E s \in {Global, app} :
                \E r \in Bound(new.groups[g], s) : x \in PermsIn(new, s, r)
    BY ResolvedInScope
  <2>2. \A g \in Defined(reg, gs) : new.groups[g] = reg.groups[g]  BY <1>4 DEF Defined
  <2>3. \A g \in Defined(reg, gs) : \A s \in {Global, app} :
          \A r \in Bound(reg.groups[g], s) : PermsIn(new, s, r) = PermsIn(reg, s, r)
    BY <1>6, UneditedPermissions
  <2>4. x \in ResolvePermissions(reg, gs, app)
          <=> \E g \in Defined(reg, gs) : \E s \in {Global, app} :
                \E r \in Bound(reg.groups[g], s) : x \in PermsIn(reg, s, r)
    BY ResolvedInScope
  <2>. HIDE DEF new, gs
  <2>. QED  BY <2>1, <2>2, <2>3, <2>4, <1>5
<1>8. ResolvePermissions(reg, gs, app) = ResolvePermissions(new, gs, app)
  <2>1. ResolvePermissions(reg, gs, app) \subseteq ResolvePermissions(new, gs, app)
    BY <1>7
  <2>2. ResolvePermissions(new, gs, app) \subseteq ResolvePermissions(reg, gs, app)
    BY <1>7
  <2>. QED  BY <2>1, <2>2
<1>. QED  BY <1>2, <1>8
(* A service on which somebody's permissions change has a scope the proposal      *)
(* touches, roles scoped or not; if that is not the global one alone, each rule   *)
(* the service declares before or after is probed for the user.                   *)
THEOREM PreviewAsksForAllRules ==
  ASSUME NEW reg, NEW members, NEW p, NEW u, NEW app, app # Global,
         ResolvePermissions(reg, Bound(members, u), app)
           # ResolvePermissions(MergeProposed(reg, p), NextGroups(members, p, u), app)
  PROVE  /\ {Global, app} \cap TouchedScopes(reg, members, p) # None
         /\ /\ app \in TouchedScopes(reg, members, p)
            /\ u \in AffectedUsers(reg, members, p)
            => \A rule \in Bound(reg.routes, app) \cup Bound(MergeProposed(reg, p).routes, app) :
                 <<u, rule>> \in Probes(reg, members, p)
<1>. DEFINE new == MergeProposed(reg, p)
            gs == Bound(members, u)
            hs == NextGroups(members, p, u)
            touched == TouchedScopes(reg, members, p)
<1>1. {Global, app} \cap touched # None
  <2>. SUFFICES ASSUME {Global, app} \cap touched = None
                PROVE  ResolvePermissions(reg, gs, app) = ResolvePermissions(new, hs, app)
    OBVIOUS
  <2>1. \A s \in {Global, app} : \A r : PermsIn(new, s, r) = PermsIn(reg, s, r)
    BY UneditedPermissions DEF TouchedScopes, None
  <2>2. ASSUME NEW g \in ChangedGroups(reg, p), NEW s \in {Global, app}
        PROVE  /\ g \in DOMAIN reg.groups => Bound(reg.groups[g], s) = None
               /\ g \in DOMAIN new.groups /\ Bound(new.groups[g], s) = None
    <3>1. g \in DOMAIN p.groups  BY DEF ChangedGroups
    <3>2. g \in DOMAIN new.groups /\ new.groups[g] = p.groups[g]
      BY <3>1 DEF MergeProposed, Merge
    <3>3. s \notin DOMAIN p.groups[g]  BY <3>1 DEF TouchedScopes, Keys, None
    <3>4. g \in DOMAIN reg.groups => s \notin DOMAIN reg.groups[g]
      BY DEF TouchedScopes, Keys, None
    <3>. QED  BY <3>2, <3>3, <3>4 DEF Bound
  <2>3. CASE u \notin DOMAIN p.membership
    <3>1. hs = gs  BY <2>3, MergeKeeps DEF NextGroups
    <3>2. ASSUME NEW g \in gs, NEW s \in {Global, app}, NEW r
          PROVE  g \in DOMAIN reg.groups /\ r \in Bound(reg.groups[g], s)
                   <=> g \in DOMAIN new.groups /\ r \in Bound(new.groups[g], s)
      BY <2>2, UnchangedGroup DEF None
    <3>3. ASSUME NEW x
          PROVE  x \in ResolvePermissions(reg, gs, app)
                   <=> x \in ResolvePermissions(new, gs, app)
      <4>1. x \in ResolvePermissions(reg, gs, app)
              <=> \E g \in gs : \E s \in {Global, app} : \E r :
                    /\ g \in DOMAIN reg.groups /\ r \in Bound(reg.groups[g], s)
                    /\ x \in PermsIn(reg, Global, r) \cup PermsIn(reg, app, r)
        BY ResolvedFrom DEF Defined
      <4>2. x \in ResolvePermissions(new, gs, app)
              <=> \E g \in gs : \E s \in {Global, app} : \E r :
                    /\ g \in DOMAIN new.groups /\ r \in Bound(new.groups[g], s)
                    /\ x \in PermsIn(new, Global, r) \cup PermsIn(new, app, r)
        BY ResolvedFrom DEF Defined
      <4>. HIDE DEF new, gs
      <4>. QED  BY <4>1, <4>2, <3>2, <2>1
    <3>4. ResolvePermissions(reg, gs, app) \subseteq ResolvePermissions(new, gs, app)
      BY <3>3
    <3>5. ResolvePermissions(new, gs, app) \subseteq ResolvePermissions(reg, gs, app)
      BY <3>3
    <3>. QED  BY <3>1, <3>4, <3>5
  <2>4. CASE u \in DOMAIN p.membership
    <3>1. hs = p.membership[u]  BY <2>4 DEF NextGroups, Merge, Bound
    <3>2. Keys(reg.groups, hs \cup gs) \subseteq touched
      BY <2>4, <3>1 DEF TouchedScopes
    <3>3. \A g \in Defined(reg, hs \cup gs) : \A s \in {Global, app} :
            Bound(reg.groups[g], s) = None
      BY <3>2 DEF Keys, Defined, Bound, None
    <3>4. \A g \in Defined(new, hs) : \A s \in {Global, app} : Bound(new.groups[g], s) = None
      <4>. SUFFICES ASSUME NEW g \in Defined(new, hs), NEW s \in {Global, app}
                    PROVE  Bound(new.groups[g], s) = None
        OBVIOUS
      <4>1. CASE g \in ChangedGroups(reg, p)  BY <4>1, <2>2
      <4>2. CASE g \notin ChangedGroups(reg, p)
        <5>1. g \in DOMAIN reg.groups /\ new.groups[g] = reg.groups[g] /\ g \in hs
          BY <4>2, UnchangedGroup DEF Defined
        <5>. QED  BY <5>1, <3>3 DEF Defined
      <4>. QED  BY <4>1, <4>2
    <3>5. ResolvePermissions(reg, gs, app) = None
      BY <3>3, ResolvedFrom DEF Defined, None
    <3>6. ResolvePermissions(new, hs, app) = None
      BY <3>4, ResolvedFrom DEF None
    <3>. QED  BY <3>5, <3>6
  <2>. QED  BY <2>3, <2>4
<1>2. ASSUME app \in touched, u \in AffectedUsers(reg, members, p),
             NEW rule \in Bound(reg.routes, app) \cup Bound(new.routes, app)
      PROVE  <<u, rule>> \in Probes(reg, members, p)
  BY <1>2 DEF Probes, AffectedServices
<1>. QED  BY <1>1, <1>2
===============================================================================
