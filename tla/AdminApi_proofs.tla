---------------------------- MODULE AdminApi_proofs ----------------------------
(***************************************************************************)
(* Proofs about AdminApi, for any number of requests, users, roles and      *)
(* clients: its types, who is admitted, the names of roles, and which       *)
(* answers stand.                                                           *)
(***************************************************************************)
EXTENDS AdminApi, TLAPS

LEMMA BodyType ==
  ASSUME TypeOK, NEW r \in Requests
  PROVE  /\ body[r] \in Bodies
         /\ caller[r] \in [user : Users, client : Clients]
BY FormsAssumption, TokensAssumption DEF TypeOK

LEMMA InitTypeOK == Init => TypeOK
<1> SUFFICES ASSUME Init PROVE TypeOK
  OBVIOUS
<1>1. roles \subseteq Rows
  BY FirstRolesAssumption DEF Init, Rows, RoleIds
<1>2. \A x, y \in roles : x.id = y.id => x = y
  BY FirstRolesAssumption DEF Init
<1>3. grants \subseteq [user : Users, role : {x.id : x \in roles}]
  BY FirstGrantsAssumption DEF Init
<1>4. NewClient \in ClientRows
  BY DEF NewClient, ClientRows
<1>5. (CHOOSE x \in Tokens : TRUE) \in Tokens
  BY TokensAssumption
<1>6. (CHOOSE f \in Forms : TRUE) \in Forms
  BY FormsAssumption
<1> QED
  BY <1>1, <1>2, <1>3, <1>4, <1>5, <1>6 DEF Init, TypeOK, PCs

------------------------------------------------------------------------------
(* Type correctness, one lemma per group of actions.                       *)

LEMMA RecordTypeOK ==
  ASSUME TypeOK, Record
  PROVE  held' \subseteq Requests /\ fit' \subseteq Requests
BY DEF TypeOK, Record

\* Steps that leave the tables alone.
LEMMA WaitTypeOK ==
  ASSUME TypeOK, NEW r \in Requests,
         \/ \E x \in Tokens, f \in Forms : Arrive(r, x, f)
         \/ Unauthorized(r) \/ Gate(r) \/ Lookup(r) \/ Sweep(r) \/ Throw(r)
  PROVE  TypeOK'
<1> USE RecordTypeOK DEF PCs, Goto, Ends, locals, tables
<1>1. CASE \E x \in Tokens, f \in Forms : Arrive(r, x, f)
  <2>1. PICK x \in Tokens, f \in Forms : Arrive(r, x, f)
    BY <1>1
  <2> QED
    BY <2>1 DEF Arrive, TypeOK
<1>2. CASE Unauthorized(r)
  BY <1>2 DEF Unauthorized, TypeOK
<1>3. CASE Gate(r)
  BY <1>3 DEF Gate, FirstStep, TypeOK
<1>4. CASE Lookup(r)
  <2>1. clients[body[r].client] \in ClientRows
    BY BodyType DEF Bodies, TypeOK
  <2> QED
    BY <1>4, <2>1 DEF Lookup, TypeOK
<1>5. CASE Sweep(r)
  <2>1. Assignments(r) \in SUBSET [user : Users, role : RoleIds]
    BY DEF Assignments, TypeOK, Rows
  <2> QED
    BY <1>5, <2>1 DEF Sweep, TypeOK
<1>6. CASE Throw(r)
  BY <1>6 DEF Throw, TypeOK
<1> QED
  BY <1>1, <1>2, <1>3, <1>4, <1>5, <1>6

\* A request is the id of a row only once it has created it: TypeOK, which says
\* that ids are keys, is inductive together with this.
MintedOnce == \A x \in roles : x.id \in Requests => pc[x.id] = "done"

LEMMA SecretType ==
  ASSUME TypeOK, NEW r \in Requests
  PROVE  /\ body[r].client \in Clients /\ body[r].usesSecret \in BOOLEAN
         /\ clients[body[r].client] \in ClientRows
         /\ [clients[body[r].client] EXCEPT !.secret = r] \in ClientRows
         /\ [clients[body[r].client] EXCEPT !.usesSecret = body[r].usesSecret] \in ClientRows
<1>1. body[r].client \in Clients /\ body[r].usesSecret \in BOOLEAN
  BY BodyType DEF Bodies
<1>2. clients[body[r].client] \in ClientRows
  BY <1>1 DEF TypeOK
<1> QED
  BY <1>1, <1>2 DEF ClientRows

LEMMA PatchedType ==
  ASSUME TypeOK, NEW r \in Requests, NEW x \in roles
  PROVE  /\ Patched(x, r) \in Rows
         /\ Patched(x, r).id = x.id /\ Patched(x, r).client = x.client
<1>1. x \in Rows /\ body[r].name \in Names /\ body[r].permissions \in SUBSET Permissions
  BY BodyType DEF Bodies, TypeOK
<1> QED
  BY <1>1 DEF Patched, Rows

\* PatchRole, row by row.
LEMMA PatchRoleEffect ==
  ASSUME TypeOK, NEW r \in Requests, PatchRole(r)
  PROVE  \/ UNCHANGED roles
         \/ \E x \in roles : Fits(x, r) /\ roles' = (roles \ {x}) \cup {Patched(x, r)}
BY DEF PatchRole, RoleOf

LEMMA RoleTypeOK ==
  ASSUME TypeOK, MintedOnce, NEW r \in Requests, CreateRole(r) \/ PatchRole(r) \/ RemoveRole(r)
  PROVE  TypeOK' /\ MintedOnce'
<1> USE RecordTypeOK DEF PCs, Ends, locals, Write, RoleFrame
<1>1. body[r] \in Bodies
  BY BodyType
<1>2. ASSUME /\ pc[r] \in {"write", "remove"}
             /\ pc' = [pc EXCEPT ![r] = "done"] \/ pc' = [pc EXCEPT ![r] = "failed"]
             /\ RoleFrame
             /\ roles' \subseteq Rows
             /\ \A x, y \in roles' : x.id = y.id => x = y
             /\ grants' \subseteq [user : Users, role : {x.id : x \in roles'}]
             /\ \A x \in roles' : \/ \E y \in roles : x.id = y.id
                                  \/ x.id = r /\ pc'[r] = "done"
      PROVE  TypeOK' /\ MintedOnce'
  <2>1. pc' \in [Requests -> PCs]
    BY <1>2 DEF TypeOK
  <2>2. TypeOK'
    BY <1>2, <2>1 DEF TypeOK
  <2>3. \A s \in Requests : pc[s] = "done" => pc'[s] = "done"
    BY <1>2 DEF TypeOK
  <2>4. MintedOnce'
    BY <1>2, <2>3 DEF MintedOnce
  <2> QED
    BY <2>2, <2>4
<1>3. CASE CreateRole(r)
  <2>1. CASE UNCHANGED roles
    BY <1>2, <1>3, <2>1 DEF CreateRole, TypeOK
  <2>2. CASE roles' = roles \cup {NewRole(r)} /\ pc' = [pc EXCEPT ![r] = "done"]
    <3>1. NewRole(r) \in Rows /\ NewRole(r).id = r
      BY <1>1 DEF NewRole, Rows, RoleIds, Bodies
    <3>2. pc[r] = "write" /\ UNCHANGED grants /\ RoleFrame
      BY <1>3 DEF CreateRole
    <3>3. \A x \in roles : x.id # r
      BY <3>2 DEF MintedOnce
    <3>4. pc'[r] = "done"
      BY <2>2 DEF TypeOK
    <3>5. \A x, y \in roles' : x.id = y.id => x = y
      BY <2>2, <3>1, <3>3 DEF TypeOK
    <3>6. grants' \subseteq [user : Users, role : {x.id : x \in roles'}]
      BY <2>2, <3>2 DEF TypeOK
    <3> QED
      BY <1>2, <2>2, <3>1, <3>2, <3>4, <3>5, <3>6 DEF TypeOK
  <2> QED
    BY <1>3, <2>1, <2>2 DEF CreateRole
<1>4. CASE PatchRole(r)
  <2>1. /\ pc[r] = "write" /\ UNCHANGED grants /\ RoleFrame
        /\ pc' = [pc EXCEPT ![r] = "done"] \/ pc' = [pc EXCEPT ![r] = "failed"]
    BY <1>4 DEF PatchRole
  <2>2. CASE UNCHANGED roles
    BY <1>2, <2>1, <2>2 DEF TypeOK
  <2>3. CASE \E x \in roles : Fits(x, r) /\ roles' = (roles \ {x}) \cup {Patched(x, r)}
    <3>1. PICK x \in roles : roles' = (roles \ {x}) \cup {Patched(x, r)}
      BY <2>3
    <3>2. Patched(x, r) \in Rows /\ Patched(x, r).id = x.id
      BY PatchedType
    <3>3. {y.id : y \in roles'} = {y.id : y \in roles}
      BY <3>1, <3>2
    <3>4. \A y, z \in roles' : y.id = z.id => y = z
      BY <3>1, <3>2 DEF TypeOK
    <3>5. roles' \subseteq Rows
      BY <3>1, <3>2 DEF TypeOK
    <3>6. \A y \in roles' : \E z \in roles : y.id = z.id
      BY <3>1, <3>2
    <3> QED
      BY <1>2, <2>1, <3>3, <3>4, <3>5, <3>6 DEF TypeOK
  <2> QED
    BY <1>4, <2>2, <2>3, PatchRoleEffect
<1>5. CASE RemoveRole(r)
  <2>1. /\ pc[r] = "remove" /\ RoleFrame
        /\ pc' = [pc EXCEPT ![r] = "done"] \/ pc' = [pc EXCEPT ![r] = "failed"]
    BY <1>5 DEF RemoveRole
  <2>2. CASE UNCHANGED <<roles, grants>>
    BY <1>2, <2>1, <2>2 DEF TypeOK
  <2>3. CASE /\ Assignments(r) \subseteq swept[r]
             /\ roles' = roles \ RoleOf(r) /\ grants' = grants \ swept[r]
    <3>1. grants' \subseteq [user : Users, role : {x.id : x \in roles'}]
      BY <2>3 DEF TypeOK, Assignments, RoleOf
    <3> QED
      BY <1>2, <2>1, <2>3, <3>1 DEF TypeOK
  <2> QED
    BY <1>5, <2>2, <2>3 DEF RemoveRole
<1> QED
  BY <1>3, <1>4, <1>5

LEMMA GrantTypeOK ==
  ASSUME TypeOK, NEW r \in Requests, Grant(r) \/ Revoke(r)
  PROVE  TypeOK'
<1> USE RecordTypeOK DEF PCs, Ends, locals, Write, RoleFrame
<1>1. body[r].user \in Users /\ body[r].role \in RoleIds
  BY BodyType DEF Bodies
<1>2. CASE Grant(r)
  <2>1. RoleOf(r) # {} => GrantOf(r) \in [user : Users, role : {x.id : x \in roles}]
    BY <1>1 DEF RoleOf, GrantOf
  <2>2. grants' \subseteq [user : Users, role : {x.id : x \in roles}]
    BY <1>2, <2>1 DEF Grant, TypeOK
  <2> QED
    BY <1>2, <2>2 DEF Grant, TypeOK
<1>3. CASE Revoke(r)
  BY <1>3 DEF Revoke, TypeOK
<1> QED
  BY <1>2, <1>3

LEMMA ClientTypeOK ==
  ASSUME TypeOK, NEW r \in Requests, RotateSecret(r) \/ PatchClient(r)
  PROVE  TypeOK'
<1> USE RecordTypeOK, SecretType DEF PCs, Ends, locals, Write, ClientFrame
<1>1. CASE RotateSecret(r)
  <2>1. clients' = [clients EXCEPT ![body[r].client] = [@ EXCEPT !.secret = r]]
    BY <1>1 DEF RotateSecret
  <2> QED
    BY <1>1, <2>1 DEF RotateSecret, TypeOK
<1>2. CASE PatchClient(r)
  <2>1. clients' = [clients EXCEPT ![body[r].client] =
                      [@ EXCEPT !.usesSecret = body[r].usesSecret]]
    BY <1>2 DEF PatchClient
  <2> QED
    BY <1>2, <2>1 DEF PatchClient, TypeOK
<1> QED
  BY <1>1, <1>2

\* What every step of a handler has in common.
LEMMA HandleFrame ==
  ASSUME TypeOK, NEW r \in Requests, Handle(r)
  PROVE  /\ pc[r] \notin {"idle"} \cup Ended /\ pc'[r] \notin {"idle", "gate"}
         /\ \A s \in Requests \ {r} : pc'[s] = pc[s]
         /\ UNCHANGED <<caller, body, prior>>
         /\ Record
BY DEF Handle, Unauthorized, Gate, FirstStep, Lookup, Throw, CreateRole, PatchRole, Sweep,
       RemoveRole, Grant, Revoke, RotateSecret, PatchClient, Goto, Ends, Write, RoleFrame,
       ClientFrame, locals, Ended, TypeOK

LEMMA ArriveFrame ==
  ASSUME TypeOK, NEW r \in Requests, NEW x \in Tokens, NEW f \in Forms, Arrive(r, x, f)
  PROVE  /\ pc[r] = "idle" /\ pc'[r] = "gate"
         /\ prior'[r] = {s \in Requests : pc[s] \in Ended}
         /\ \A s \in Requests \ {r} : /\ pc'[s] = pc[s] /\ caller'[s] = caller[s]
                                      /\ body'[s] = body[s] /\ prior'[s] = prior[s]
         /\ UNCHANGED <<roles, grants, clients, found, swept, written>>
         /\ Record
BY DEF Arrive, Goto, tables, TypeOK

LEMMA MintedStep ==
  ASSUME TypeOK, MintedOnce, NEW r \in Requests, UNCHANGED roles,
         \A s \in Requests \ {r} : pc'[s] = pc[s], pc[r] # "done"
  PROVE  MintedOnce'
BY DEF MintedOnce, TypeOK

LEMMA TypeOKStep ==
  ASSUME TypeOK, MintedOnce, [Next]_vars
  PROVE  TypeOK' /\ MintedOnce'
<1>1. CASE UNCHANGED vars \/ Rest
  BY <1>1 DEF Rest, vars, tables, locals, TypeOK, MintedOnce
<1>2. ASSUME NEW r \in Requests, NEW x \in Tokens, NEW f \in Forms, Arrive(r, x, f)
      PROVE  TypeOK' /\ MintedOnce'
  <2>1. MintedOnce'
    BY <1>2, ArriveFrame, MintedStep
  <2> QED
    BY <1>2, <2>1, WaitTypeOK
<1>3. ASSUME NEW r \in Requests, Handle(r)
      PROVE  TypeOK' /\ MintedOnce'
  <2>1. pc[r] # "done" /\ \A s \in Requests \ {r} : pc'[s] = pc[s]
    BY <1>3, HandleFrame DEF Ended
  <2>2. CASE CreateRole(r) \/ PatchRole(r) \/ RemoveRole(r)
    BY <2>2, RoleTypeOK
  <2>3. CASE Unauthorized(r) \/ Gate(r) \/ Lookup(r) \/ Sweep(r) \/ Throw(r)
    <3>1. UNCHANGED roles
      BY <2>3 DEF Unauthorized, Gate, Lookup, Sweep, Throw, tables
    <3> QED
      BY <2>1, <2>3, <3>1, WaitTypeOK, MintedStep
  <2>4. CASE Grant(r) \/ Revoke(r) \/ RotateSecret(r) \/ PatchClient(r)
    <3>1. UNCHANGED roles
      BY <2>4 DEF Grant, Revoke, RotateSecret, PatchClient, ClientFrame
    <3> QED
      BY <2>1, <2>4, <3>1, GrantTypeOK, ClientTypeOK, MintedStep
  <2> QED
    BY <1>3, <2>2, <2>3, <2>4 DEF Handle
<1> QED
  BY <1>1, <1>2, <1>3 DEF Next

LEMMA InitMinted == Init => MintedOnce
BY FirstRolesAssumption DEF Init, MintedOnce

LEMMA TypesHold == Spec => [](TypeOK /\ MintedOnce)
<1>1. TypeOK /\ MintedOnce /\ [Next]_vars => (TypeOK /\ MintedOnce)'
  BY TypeOKStep
<1> QED
  BY InitTypeOK, InitMinted, <1>1, PTL DEF Spec

\* Rows, requests and histories stay in their types; ids stay keys, and an
\* assignment never names a role that is gone (schema.prisma, rolesApi.ts:149-152).
THEOREM TypeCorrect == Spec => []TypeOK
BY TypesHold, PTL

------------------------------------------------------------------------------
(* What the histories and the handlers' locals say of requests that are     *)
(* under way.                                                               *)

\* Who was over when r arrived is over.
PriorEnded == \A r \in Requests : \A s \in prior[r] : pc[s] \in Ended

\* held is up to date for whoever waits at the middleware.
HeldIsCurrent == \A r \in Requests : pc[r] = "gate" /\ Entitled(r) => r \in held

\* Only the removal of a role sweeps, and only the assignments of its role.
SweptOwn ==
  \A r \in Requests :
    /\ pc[r] \in {"sweep", "remove"} => body[r].op = "deleteRole"
    /\ pc[r] = "remove" => \A x \in swept[r] : x.role = body[r].role

\* A rotation reaches its write past the look at a client with a secret.
ConfidentialRecorded ==
  \A r \in Requests : Write(r, "rotateSecret") => r \in fit

WrittenDone == \A r \in written : r \in Requests /\ pc[r] = "done"

Underway == PriorEnded /\ HeldIsCurrent /\ SweptOwn /\ ConfidentialRecorded /\ WrittenDone

IInv ==
  /\ TypeOK /\ MintedOnce /\ Underway
  /\ OneRolePerName
  /\ AdmittedWhileEntitled
  /\ LastRotationStands /\ RotatedWhileConfidential
  /\ GrantsAndRevocationsHold

LEMMA InitIInv == Init => IInv
<1> SUFFICES ASSUME Init PROVE IInv
  OBVIOUS
<1>1. TypeOK /\ MintedOnce
  BY InitTypeOK, InitMinted
<1>2. Underway
  BY DEF Init, Underway, PriorEnded, HeldIsCurrent, SweptOwn, ConfidentialRecorded,
         WrittenDone, Write
<1>3. OneRolePerName
  BY FirstRolesAssumption DEF Init, OneRolePerName
<1>4. AdmittedWhileEntitled
  BY DEF Init, AdmittedWhileEntitled, Admitted
<1>5. LastRotationStands /\ RotatedWhileConfidential
  BY DEF Init, LastRotationStands, RotatedWhileConfidential
<1>6. GrantsAndRevocationsHold
  BY DEF Init, GrantsAndRevocationsHold, Did
<1> QED
  BY <1>1, <1>2, <1>3, <1>4, <1>5, <1>6 DEF IInv

\* A step is taken by a request that has no answer yet; the others stay as they are.
LEMMA EndedStays ==
  ASSUME TypeOK, NEW r \in Requests, Handle(r) \/ \E x \in Tokens, f \in Forms : Arrive(r, x, f)
  PROVE  /\ pc[r] \notin Ended
         /\ \A s \in Requests \ {r} : /\ pc'[s] = pc[s] /\ body'[s] = body[s]
                                      /\ prior'[s] = prior[s]
         /\ Record
<1>1. CASE Handle(r)
  BY <1>1, HandleFrame
<1>2. CASE \E x \in Tokens, f \in Forms : Arrive(r, x, f)
  <2>1. PICK x \in Tokens, f \in Forms : Arrive(r, x, f)
    BY <1>2
  <2> QED
    BY <2>1, ArriveFrame DEF Ended
<1> QED
  BY <1>1, <1>2

LEMMA PriorStep ==
  ASSUME TypeOK, PriorEnded, NEW r \in Requests,
         Handle(r) \/ \E x \in Tokens, f \in Forms : Arrive(r, x, f)
  PROVE  PriorEnded'
<1>1. \A s \in Requests : pc[s] \in Ended => pc'[s] \in Ended
  BY EndedStays
<1>2. \A s \in Requests : prior'[s] \subseteq prior[s] \cup {q \in Requests : pc[q] \in Ended}
  <2>1. CASE Handle(r)
    BY <2>1, HandleFrame
  <2>2. CASE \E x \in Tokens, f \in Forms : Arrive(r, x, f)
    <3>1. PICK x \in Tokens, f \in Forms : Arrive(r, x, f)
      BY <2>2
    <3> QED
      BY <3>1, ArriveFrame
  <2> QED
    BY <2>1, <2>2
<1> QED
  BY <1>1, <1>2 DEF PriorEnded, TypeOK

\* Record keeps held up to date, whatever else the step does.
LEMMA HeldStep ==
  ASSUME Record
  PROVE  HeldIsCurrent' /\ held \subseteq held' /\ fit \subseteq fit'
BY DEF Record, HeldIsCurrent

\* What each step says of the next place of its request.
LEMMA NextPlace ==
  ASSUME TypeOK, NEW r \in Requests, Handle(r)
  PROVE  /\ pc[r] = "gate" /\ pc'[r] \notin {"refused", "failed"} => Entitled(r)
         /\ pc'[r] = "sweep" => body[r].op = "deleteRole"
         /\ pc'[r] = "remove" => pc[r] = "sweep" /\ swept'[r] = Assignments(r)
         /\ pc'[r] = "write" /\ body[r].op = "rotateSecret" =>
              clients'[body[r].client].usesSecret
         /\ written' \subseteq written \cup {r}
         /\ written' # written => Write(r, "rotateSecret") /\ pc'[r] = "done"
         /\ pc[r] # "sweep" => swept' = swept
<1> USE DEF Goto, Ends, TypeOK
<1>1. CASE Unauthorized(r) \/ Throw(r)
  BY <1>1 DEF Unauthorized, Throw, locals
<1>2. CASE Gate(r)
  BY <1>2 DEF Gate, FirstStep, locals
<1>3. CASE Lookup(r)
  <2>1. clients' = clients /\ swept' = swept /\ written' = written /\ pc[r] = "lookup"
    BY <1>3 DEF Lookup, tables
  <2>2. pc'[r] = IF ~Proceeds(r) THEN "refused"
                 ELSE IF body[r].op = "deleteRole" THEN "sweep" ELSE "write"
    BY <1>3 DEF Lookup
  <2>3. Proceeds(r) /\ body[r].op = "rotateSecret" => clients[body[r].client].usesSecret
    BY DEF Proceeds
  <2> QED
    BY <2>1, <2>2, <2>3
<1>4. CASE CreateRole(r) \/ PatchRole(r) \/ Grant(r) \/ Revoke(r) \/ PatchClient(r)
  BY <1>4 DEF CreateRole, PatchRole, Grant, Revoke, PatchClient, RoleFrame, ClientFrame,
              locals, Write
<1>5. CASE Sweep(r)
  BY <1>5 DEF Sweep
<1>6. CASE RemoveRole(r)
  BY <1>6 DEF RemoveRole, RoleFrame, locals
<1>7. CASE RotateSecret(r)
  BY <1>7 DEF RotateSecret, ClientFrame, locals, Write
<1> QED
  BY <1>1, <1>2, <1>3, <1>4, <1>5, <1>6, <1>7 DEF Handle
LEMMA SweptStep ==
  ASSUME TypeOK, SweptOwn, NEW r \in Requests, Handle(r)
  PROVE  SweptOwn'
<1>1. body' = body
  BY HandleFrame
<1>2. ASSUME NEW s \in Requests, s # r
      PROVE  /\ pc'[s] \in {"sweep", "remove"} => body[s].op = "deleteRole"
             /\ pc'[s] = "remove" => \A x \in swept'[s] : x.role = body[s].role
  <2>1. pc'[s] = pc[s]
    BY <1>2, HandleFrame
  <2>2. swept'[s] = swept[s]
    <3>1. CASE swept' = swept
      BY <3>1
    <3>2. CASE pc[r] = "sweep" /\ swept' # swept
      BY <3>2, <1>2 DEF Handle, Unauthorized, Gate, Lookup, Throw, CreateRole, PatchRole, Sweep,
         RemoveRole, Grant, Revoke, RotateSecret, PatchClient, RoleFrame, ClientFrame,
         locals, TypeOK
    <3> QED
      BY <3>1, <3>2, NextPlace
  <2> QED
    BY <2>1, <2>2 DEF SweptOwn
<1>3. /\ pc'[r] \in {"sweep", "remove"} => body[r].op = "deleteRole"
      /\ pc'[r] = "remove" => \A x \in swept'[r] : x.role = body[r].role
  <2>1. CASE pc'[r] = "remove"
    <3>1. pc[r] = "sweep" /\ swept'[r] = Assignments(r)
      BY <2>1, NextPlace
    <3> QED
      BY <2>1, <3>1 DEF SweptOwn, Assignments
  <2> QED
    BY <2>1, NextPlace
<1> QED
  BY <1>1, <1>2, <1>3 DEF SweptOwn

LEMMA UnderwayHandle ==
  ASSUME TypeOK, Underway, NEW r \in Requests, Handle(r)
  PROVE  Underway'
<1>1. PriorEnded' /\ SweptOwn' /\ HeldIsCurrent' /\ Record
  BY PriorStep, SweptStep, HeldStep, HandleFrame DEF Underway
<1>2. body' = body /\ \A s \in Requests \ {r} : pc'[s] = pc[s]
  BY HandleFrame
<1>3. ConfidentialRecorded'
  <2> SUFFICES ASSUME NEW s \in Requests, pc'[s] = "write", body[s].op = "rotateSecret"
               PROVE  s \in fit'
    BY <1>2 DEF ConfidentialRecorded, Write
  <2>1. CASE s # r
    BY <1>1, <1>2, <2>1, HeldStep DEF Underway, ConfidentialRecorded, Write
  <2>2. CASE s = r
    <3>1. clients'[body'[r].client].usesSecret
      BY <1>2, <2>2, NextPlace
    <3> QED
      BY <1>1, <2>2, <3>1 DEF Record, Ended
  <2> QED
    BY <2>1, <2>2
<1>4. WrittenDone'
  <2>1. pc[r] # "done"
    BY HandleFrame DEF Ended
  <2>2. \A s \in written : s \in Requests /\ s # r /\ pc'[s] = "done"
    BY <1>2, <2>1 DEF Underway, WrittenDone
  <2> QED
    BY <2>2, NextPlace DEF WrittenDone
<1> QED
  BY <1>1, <1>3, <1>4 DEF Underway

LEMMA UnderwayArrive ==
  ASSUME TypeOK, Underway, NEW r \in Requests, NEW x \in Tokens, NEW f \in Forms,
         Arrive(r, x, f)
  PROVE  Underway'
<1>1. /\ pc[r] = "idle" /\ pc'[r] = "gate" /\ UNCHANGED <<swept, written>> /\ Record
      /\ \A s \in Requests \ {r} : pc'[s] = pc[s] /\ body'[s] = body[s]
  BY ArriveFrame
<1>2. PriorEnded' /\ HeldIsCurrent' /\ fit \subseteq fit'
  BY <1>1, PriorStep, HeldStep DEF Underway
<1>3. SweptOwn'
  BY <1>1 DEF Underway, SweptOwn
<1>4. ConfidentialRecorded'
  BY <1>1, <1>2 DEF Underway, ConfidentialRecorded, Write
<1>5. WrittenDone'
  BY <1>1 DEF Underway, WrittenDone
<1> QED
  BY <1>2, <1>3, <1>4, <1>5 DEF Underway

------------------------------------------------------------------------------
(* Each property, step by step.                                            *)

LEMMA NamesStep ==
  ASSUME TypeOK, OneRolePerName, NEW r \in Requests, Handle(r)
  PROVE  OneRolePerName'
<1>1. CASE roles' \subseteq roles
  BY <1>1 DEF OneRolePerName
<1>2. CASE CreateRole(r)
  <2>1. CASE UNCHANGED roles
    BY <1>1, <2>1
  <2>2. CASE /\ SameName(body[r].client, body[r].name) = {}
             /\ roles' = roles \cup {NewRole(r)}
    <3>1. NewRole(r).client = body[r].client /\ NewRole(r).name = body[r].name
      BY DEF NewRole
    <3> QED
      BY <2>2, <3>1 DEF OneRolePerName, SameName
  <2> QED
    BY <1>2, <2>1, <2>2 DEF CreateRole
<1>3. CASE PatchRole(r)
  <2>1. CASE UNCHANGED roles
    BY <1>1, <2>1
  <2>2. CASE \E x \in roles : Fits(x, r) /\ roles' = (roles \ {x}) \cup {Patched(x, r)}
    <3>1. PICK x \in roles : Fits(x, r) /\ roles' = (roles \ {x}) \cup {Patched(x, r)}
      BY <2>2
    <3>2. Patched(x, r).client = x.client
      BY PatchedType
    <3>3. \A y \in roles \ {x} : ~(y.client = x.client /\ y.name = Patched(x, r).name)
      BY <3>1 DEF Fits, SameName
    <3> QED
      BY <3>1, <3>2, <3>3 DEF OneRolePerName
  <2> QED
    BY <1>3, <2>1, <2>2, PatchRoleEffect
<1>4. ~CreateRole(r) /\ ~PatchRole(r) => roles' \subseteq roles
  BY DEF Handle, Unauthorized, Gate, Lookup, Throw, Sweep, RemoveRole, Grant, Revoke,
         RotateSecret, PatchClient, tables, ClientFrame
<1> QED
  BY <1>1, <1>2, <1>3, <1>4

LEMMA AdmissionStep ==
  ASSUME TypeOK, HeldIsCurrent, AdmittedWhileEntitled, NEW r \in Requests, Handle(r)
  PROVE  AdmittedWhileEntitled'
<1>1. held \subseteq held'
  BY HandleFrame, HeldStep
<1>2. \A s \in Requests \ {r} : pc'[s] = pc[s]
  BY HandleFrame
<1>3. ASSUME pc'[r] \notin {"idle", "gate", "refused", "failed"}
      PROVE  r \in held
  <2>1. CASE pc[r] = "gate"
    BY <1>3, <2>1, NextPlace DEF HeldIsCurrent
  <2>2. CASE pc[r] # "gate"
    BY <2>2, HandleFrame DEF AdmittedWhileEntitled, Admitted, Ended
  <2> QED
    BY <2>1, <2>2
<1> QED
  BY <1>1, <1>2, <1>3 DEF AdmittedWhileEntitled, Admitted

\* What a handler's step does to the secrets.
LEMMA SecretEffect ==
  ASSUME TypeOK, NEW r \in Requests, Handle(r)
  PROVE  \/ /\ RotateSecret(r)
            /\ written' = written \cup {r}
            /\ clients'[body[r].client].secret = r
            /\ \A c \in Clients \ {body[r].client} : clients'[c] = clients[c]
         \/ /\ written' = written
            /\ \A c \in Clients : clients'[c].secret = clients[c].secret
<1>1. CASE RotateSecret(r)
  <2>1. /\ clients' = [clients EXCEPT ![body[r].client] = [@ EXCEPT !.secret = r]]
        /\ written' = written \cup {r}
    BY <1>1 DEF RotateSecret
  <2>2. [clients[body[r].client] EXCEPT !.secret = r].secret = r
    BY SecretType DEF ClientRows
  <2> QED
    BY <1>1, <2>1, <2>2, SecretType DEF TypeOK
<1>2. CASE PatchClient(r)
  <2>1. /\ clients' = [clients EXCEPT ![body[r].client] =
                         [@ EXCEPT !.usesSecret = body[r].usesSecret]]
        /\ written' = written
    BY <1>2 DEF PatchClient
  <2>2. [clients[body[r].client] EXCEPT !.usesSecret = body[r].usesSecret].secret
          = clients[body[r].client].secret
    BY SecretType DEF ClientRows
  <2> QED
    BY <2>1, <2>2, SecretType DEF TypeOK
<1>3. CASE ~RotateSecret(r) /\ ~PatchClient(r)
  BY <1>3 DEF Handle, Unauthorized, Gate, Lookup, Throw, Sweep, RemoveRole, Grant, Revoke,
              CreateRole, PatchRole, tables, RoleFrame
<1> QED
  BY <1>1, <1>2, <1>3

LEMMA RotationStep ==
  ASSUME TypeOK, Underway, LastRotationStands, RotatedWhileConfidential,
         NEW r \in Requests, Handle(r)
  PROVE  LastRotationStands' /\ RotatedWhileConfidential'
<1>1. UNCHANGED <<body, prior>> /\ fit \subseteq fit'
  BY HandleFrame, HeldStep
<1>2. \A s \in written : s \in Requests /\ body[s].client \in Clients
  BY BodyType DEF Underway, WrittenDone, Bodies
<1>3. CASE /\ RotateSecret(r)
           /\ written' = written \cup {r}
           /\ clients'[body[r].client].secret = r
           /\ \A c \in Clients \ {body[r].client} : clients'[c] = clients[c]
  <2>1. Write(r, "rotateSecret") /\ pc[r] = "write"
    BY <1>3 DEF RotateSecret, Write
  <2>2. r \in fit
    BY <2>1 DEF Underway, ConfidentialRecorded
  <2>3. r \notin written /\ \A s \in Requests : NotBefore(r, s)
    BY <2>1 DEF Underway, WrittenDone, PriorEnded, NotBefore, Ended
  <2>4. ASSUME NEW s \in written'
        PROVE  \/ clients'[body[s].client].secret = s
               \/ \E q \in written' : /\ q # s /\ body[q].client = body[s].client
                                      /\ clients'[body[s].client].secret = q /\ NotBefore(q, s)
    <3>1. CASE body[s].client = body[r].client
      <4>1. s = r \/ (s \in Requests /\ s # r)
        BY <1>2, <1>3
      <4> QED
        BY <1>3, <2>3, <3>1, <4>1
    <3>2. CASE body[s].client # body[r].client
      <4>1. s \in written /\ clients'[body[s].client] = clients[body[s].client]
        BY <1>2, <1>3, <3>2
      <4> QED
        BY <1>3, <4>1 DEF LastRotationStands
    <3> QED
      BY <3>1, <3>2
  <2> QED
    BY <1>1, <1>3, <2>2, <2>4 DEF LastRotationStands, RotatedWhileConfidential, NotBefore
<1>4. CASE /\ written' = written
           /\ \A c \in Clients : clients'[c].secret = clients[c].secret
  BY <1>1, <1>2, <1>4 DEF LastRotationStands, RotatedWhileConfidential, NotBefore
<1> QED
  BY <1>3, <1>4, SecretEffect
\* What a handler's step does to the assignments.
LEMMA GrantEffect ==
  ASSUME TypeOK, SweptOwn, NEW r \in Requests, Handle(r)
  PROVE  \/ grants' = grants /\ ~(pc'[r] = "done" /\ body[r].op \in {"grant", "revoke"})
         \/ /\ pc'[r] = "done" /\ body[r].op = "grant"
            /\ grants' = grants \cup {GrantOf(r)}
         \/ /\ pc'[r] = "done" /\ body[r].op = "revoke"
            /\ grants' = grants \ {GrantOf(r)}
         \/ /\ pc'[r] = "done" /\ body[r].op = "deleteRole"
            /\ grants' \subseteq grants
            /\ \A x \in grants \ grants' : x.role = body[r].role
<1> USE DEF Goto, Ends, Write, TypeOK
<1>1. CASE Unauthorized(r) \/ Throw(r)
  BY <1>1 DEF Unauthorized, Throw, tables
<1>2. CASE Gate(r)
  BY <1>2 DEF Gate, FirstStep, tables
<1>3. CASE Lookup(r)
  BY <1>3 DEF Lookup, tables
<1>4. CASE CreateRole(r) \/ PatchRole(r) \/ RotateSecret(r) \/ PatchClient(r)
  BY <1>4 DEF CreateRole, PatchRole, RotateSecret, PatchClient, ClientFrame
<1>5. CASE Sweep(r)
  BY <1>5 DEF Sweep, tables
<1>6. CASE RemoveRole(r)
  <2>1. body[r].op = "deleteRole" /\ \A x \in swept[r] : x.role = body[r].role
    BY <1>6 DEF RemoveRole, SweptOwn
  <2>2. \/ grants' = grants
        \/ grants' = grants \ swept[r] /\ pc'[r] = "done"
    BY <1>6 DEF RemoveRole
  <2> QED
    BY <2>1, <2>2
<1>7. CASE Grant(r)
  BY <1>7 DEF Grant
<1>8. CASE Revoke(r)
  BY <1>8 DEF Revoke
<1> QED
  BY <1>1, <1>2, <1>3, <1>4, <1>5, <1>6, <1>7, <1>8 DEF Handle

\* The two halves of GrantsAndRevocationsHold, for one request.
GrantStands(r) ==
  \/ GrantOf(r) \in grants
  \/ \E s \in Requests : /\ NotBefore(s, r)
                         /\ \/ Did(s, "revoke") /\ GrantOf(s) = GrantOf(r)
                            \/ Did(s, "deleteRole") /\ body[s].role = body[r].role

RevocationStands(r) ==
  \/ GrantOf(r) \notin grants
  \/ \E s \in Requests : /\ NotBefore(s, r) /\ s # r
                         /\ Did(s, "grant") /\ GrantOf(s) = GrantOf(r)

LEMMA GrantsStep ==
  ASSUME TypeOK, PriorEnded, SweptOwn, GrantsAndRevocationsHold, NEW r \in Requests, Handle(r)
  PROVE  GrantsAndRevocationsHold'
<1>1. /\ UNCHANGED <<body, prior>> /\ pc[r] \notin {"idle"} \cup Ended
      /\ \A s \in Requests \ {r} : pc'[s] = pc[s]
  BY HandleFrame
<1>2. /\ \A s, q \in Requests : NotBefore(s, q)' <=> NotBefore(s, q)
      /\ \A s \in Requests : GrantOf(s)' = GrantOf(s)
  BY <1>1 DEF NotBefore, GrantOf
<1>3. \A s \in Requests : NotBefore(r, s)
  BY <1>1 DEF NotBefore, PriorEnded
<1>4. \A s \in Requests, op \in Operations : Did(s, op) => Did(s, op)' /\ s # r
  BY <1>1 DEF Did, Ended
<1>5. \A s \in Requests, op \in Operations : Did(s, op)' => s = r \/ Did(s, op)
  BY <1>1 DEF Did
<1>6. \A s \in Requests : (GrantOf(s)).role = body[s].role
  BY DEF GrantOf
<1>7. ASSUME NEW q \in Requests, Did(q, "grant")'
      PROVE  GrantStands(q)'
  <2>1. CASE q = r
    <3>1. grants' = grants \cup {GrantOf(r)}
      BY <1>1, <1>7, <2>1, GrantEffect DEF Did
    <3> QED
      BY <1>2, <2>1, <3>1 DEF GrantStands
  <2>2. CASE q # r
    <3>1. GrantStands(q)
      BY <1>5, <1>7, <2>2 DEF GrantsAndRevocationsHold, GrantStands, Operations
    <3>2. CASE GrantOf(q) \in grants'
      BY <1>2, <3>2 DEF GrantStands
    <3>3. CASE GrantOf(q) \in grants /\ GrantOf(q) \notin grants'
      <4>1. \/ pc'[r] = "done" /\ body[r].op = "revoke" /\ GrantOf(q) = GrantOf(r)
            \/ pc'[r] = "done" /\ body[r].op = "deleteRole" /\ (GrantOf(q)).role = body[r].role
        BY <3>3, GrantEffect
      <4>2. \/ Did(r, "revoke")' /\ GrantOf(r)' = GrantOf(q)'
            \/ Did(r, "deleteRole")' /\ (body[r].role = body[q].role)'
        BY <1>1, <1>2, <1>6, <4>1 DEF Did
      <4> QED
        BY <1>2, <1>3, <4>2 DEF GrantStands
    <3>4. CASE \E s \in Requests : /\ NotBefore(s, q)
                         /\ \/ Did(s, "revoke") /\ GrantOf(s) = GrantOf(q)
                            \/ Did(s, "deleteRole") /\ body[s].role = body[q].role
      <4>1. PICK s \in Requests : /\ NotBefore(s, q)
                         /\ \/ Did(s, "revoke") /\ GrantOf(s) = GrantOf(q)
                            \/ Did(s, "deleteRole") /\ body[s].role = body[q].role
        BY <3>4
      <4>2. \/ Did(s, "revoke")' /\ GrantOf(s)' = GrantOf(q)'
            \/ Did(s, "deleteRole")' /\ (body[s].role = body[q].role)'
        BY <1>1, <1>2, <1>4, <4>1 DEF Operations
      <4> QED
        BY <1>2, <4>1, <4>2 DEF GrantStands
    <3> QED
      BY <3>1, <3>2, <3>3, <3>4 DEF GrantStands
  <2> QED
    BY <2>1, <2>2
<1>8. ASSUME NEW q \in Requests, Did(q, "revoke")'
      PROVE  RevocationStands(q)'
  <2>1. CASE q = r
    <3>1. grants' = grants \ {GrantOf(r)}
      BY <1>1, <1>8, <2>1, GrantEffect DEF Did
    <3> QED
      BY <1>2, <2>1, <3>1 DEF RevocationStands
  <2>2. CASE q # r
    <3>1. RevocationStands(q)
      BY <1>5, <1>8, <2>2 DEF GrantsAndRevocationsHold, RevocationStands, Operations
    <3>2. CASE GrantOf(q) \notin grants'
      BY <1>2, <3>2 DEF RevocationStands
    <3>3. CASE GrantOf(q) \notin grants /\ GrantOf(q) \in grants'
      <4>1. pc'[r] = "done" /\ body[r].op = "grant" /\ GrantOf(q) = GrantOf(r)
        BY <3>3, GrantEffect
      <4>2. Did(r, "grant")' /\ GrantOf(r)' = GrantOf(q)'
        BY <1>1, <1>2, <4>1 DEF Did
      <4> QED
        BY <1>2, <1>3, <2>2, <4>2 DEF RevocationStands
    <3>4. CASE \E s \in Requests : /\ NotBefore(s, q) /\ s # q
                                   /\ Did(s, "grant") /\ GrantOf(s) = GrantOf(q)
      <4>1. PICK s \in Requests : /\ NotBefore(s, q) /\ s # q
                                  /\ Did(s, "grant") /\ GrantOf(s) = GrantOf(q)
        BY <3>4
      <4>2. Did(s, "grant")' /\ GrantOf(s)' = GrantOf(q)'
        BY <1>2, <1>4, <4>1 DEF Operations
      <4> QED
        BY <1>2, <4>1, <4>2 DEF RevocationStands
    <3> QED
      BY <3>1, <3>2, <3>3, <3>4 DEF RevocationStands
  <2> QED
    BY <2>1, <2>2
<1> QED
  BY <1>7, <1>8 DEF GrantsAndRevocationsHold, GrantStands, RevocationStands

------------------------------------------------------------------------------

\* A request that arrives has not acted: nothing that is said of the others,
\* or of the tables, changes.
LEMMA ArriveStep ==
  ASSUME IInv, NEW r \in Requests, NEW x \in Tokens, NEW f \in Forms, Arrive(r, x, f)
  PROVE  /\ OneRolePerName' /\ AdmittedWhileEntitled' /\ RotatedWhileConfidential'
         /\ LastRotationStands' /\ GrantsAndRevocationsHold'
<1> USE DEF IInv
<1>1. /\ pc[r] = "idle" /\ pc'[r] = "gate" /\ Record
      /\ \A s \in Requests \ {r} : /\ pc'[s] = pc[s] /\ body'[s] = body[s]
                                   /\ prior'[s] = prior[s]
      /\ UNCHANGED <<roles, grants, clients, written>>
  BY ArriveFrame
<1>2. held \subseteq held' /\ fit \subseteq fit'
  BY <1>1, HeldStep
<1>3. OneRolePerName' /\ RotatedWhileConfidential'
  BY <1>1, <1>2 DEF OneRolePerName, RotatedWhileConfidential
<1>4. AdmittedWhileEntitled'
  BY <1>1, <1>2 DEF AdmittedWhileEntitled, Admitted
<1>5. r \notin written /\ written \subseteq Requests
  BY <1>1 DEF Underway, WrittenDone
<1>6. LastRotationStands'
  BY <1>1, <1>5 DEF LastRotationStands, NotBefore
<1>7. GrantsAndRevocationsHold'
  <2>1. ~Did(r, "grant")' /\ ~Did(r, "revoke")' /\ \A op \in Operations : ~Did(r, op)
    BY <1>1 DEF Did
  <2>2. \A s \in Requests \ {r}, op \in Operations : Did(s, op)' <=> Did(s, op)
    BY <1>1 DEF Did
  <2>3. \A s \in Requests \ {r} : GrantOf(s)' = GrantOf(s) /\ body'[s].role = body[s].role
    BY <1>1 DEF GrantOf
  <2>4. \A s \in Requests, q \in Requests \ {r} : NotBefore(s, q)' <=> NotBefore(s, q)
    BY <1>1 DEF NotBefore
  <2>5. ASSUME NEW q \in Requests \ {r}, Did(q, "grant")
        PROVE  GrantStands(q)'
    <3>1. GrantStands(q)
      BY <2>5 DEF GrantsAndRevocationsHold, GrantStands
    <3> QED
      BY <1>1, <2>1, <2>2, <2>3, <2>4, <3>1 DEF GrantStands, Operations
  <2>6. ASSUME NEW q \in Requests \ {r}, Did(q, "revoke")
        PROVE  RevocationStands(q)'
    <3>1. RevocationStands(q)
      BY <2>6 DEF GrantsAndRevocationsHold, RevocationStands
    <3> QED
      BY <1>1, <2>1, <2>2, <2>3, <2>4, <3>1 DEF RevocationStands, Operations
  <2> QED
    BY <2>1, <2>2, <2>5, <2>6
       DEF GrantsAndRevocationsHold, GrantStands, RevocationStands, Operations
<1> QED
  BY <1>3, <1>4, <1>6, <1>7
\* Nothing moves in a step that leaves vars alone.
LEMMA StutterStep ==
  ASSUME IInv, UNCHANGED vars
  PROVE  IInv'
<1> USE DEF IInv, vars, tables, locals
<1>1. TypeOK' /\ MintedOnce'
  BY DEF TypeOK, MintedOnce
<1>2. PriorEnded' /\ SweptOwn' /\ ConfidentialRecorded' /\ WrittenDone'
  BY DEF Underway, PriorEnded, SweptOwn, ConfidentialRecorded, WrittenDone, Write
<1>3. HeldIsCurrent'
  BY DEF Underway, HeldIsCurrent, Entitled, HeldRoles, Needed
<1>4. OneRolePerName' /\ AdmittedWhileEntitled' /\ RotatedWhileConfidential'
  BY DEF OneRolePerName, AdmittedWhileEntitled, Admitted, RotatedWhileConfidential
<1>5. LastRotationStands'
  BY DEF LastRotationStands, NotBefore
<1>6. GrantsAndRevocationsHold'
  BY DEF GrantsAndRevocationsHold, Did, GrantOf, NotBefore
<1> QED
  BY <1>1, <1>2, <1>3, <1>4, <1>5, <1>6 DEF Underway

\* Every step of every handler (rolesApi.ts, usersApi.ts, clientsApi.ts) keeps the
\* properties together with what they rest on about requests under way.
THEOREM Inductive == IInv /\ [Next]_vars => IInv'
<1> SUFFICES ASSUME IInv, [Next]_vars PROVE IInv'
  OBVIOUS
<1>1. TypeOK' /\ MintedOnce'
  BY TypeOKStep DEF IInv
<1>2. CASE UNCHANGED vars \/ Rest
  BY <1>2, StutterStep DEF Rest
<1>3. ASSUME NEW r \in Requests, NEW x \in Tokens, NEW f \in Forms, Arrive(r, x, f)
      PROVE  IInv'
  BY <1>1, <1>3, ArriveStep, UnderwayArrive DEF IInv
<1>4. ASSUME NEW r \in Requests, Handle(r)
      PROVE  IInv'
  <2>1. Underway'
    BY <1>4, UnderwayHandle DEF IInv
  <2>2. OneRolePerName'
    BY <1>4, NamesStep DEF IInv
  <2>3. AdmittedWhileEntitled'
    BY <1>4, AdmissionStep DEF IInv, Underway
  <2>4. LastRotationStands' /\ RotatedWhileConfidential'
    BY <1>4, RotationStep DEF IInv
  <2>5. GrantsAndRevocationsHold'
    BY <1>4, GrantsStep DEF IInv, Underway
  <2> QED
    BY <1>1, <2>1, <2>2, <2>3, <2>4, <2>5 DEF IInv
<1> QED
  BY <1>2, <1>3, <1>4 DEF Next

LEMMA IInvHolds == Spec => []IInv
BY InitIInv, Inductive, PTL DEF Spec

\* A client has one role of a name, whatever is created and renamed at the same
\* time (rolesApi.ts:90-96, 129).
THEOREM NamesAreUnique == Spec => []OneRolePerName
<1>1. IInv => OneRolePerName
  BY DEF IInv
<1> QED
  BY <1>1, IInvHolds, PTL

\* requirePermission lets a request through only if its caller was entitled since
\* it arrived (requirePermission.ts:45-54).
THEOREM AdmissionIsEntitled == Spec => []AdmittedWhileEntitled
<1>1. IInv => AdmittedWhileEntitled
  BY DEF IInv
<1> QED
  BY <1>1, IInvHolds, PTL

\* An answered grant or revocation stands until a request that was not over before
\* it undoes it (usersApi.ts:190-208, rolesApi.ts:149-152).
THEOREM AnswersStand == Spec => []GrantsAndRevocationsHold
<1>1. IInv => GrantsAndRevocationsHold
  BY DEF IInv
<1> QED
  BY <1>1, IInvHolds, PTL

\* No PATCH brings an earlier secret back, and a rotation is undone only by one
\* that was not over before it (clientsApi.ts:170-186, 213-217).
THEOREM SecretsStand == Spec => []LastRotationStands
<1>1. IInv => LastRotationStands
  BY DEF IInv
<1> QED
  BY <1>1, IInvHolds, PTL

\* Both together: what was answered stands.
THEOREM AnswersAreKept == Spec => []AnswersHold
BY AnswersStand, SecretsStand, PTL DEF AnswersHold

\* A rotation starts from a client that uses a secret (clientsApi.ts:205-217).
THEOREM RotationsWereConfidential == Spec => []RotatedWhileConfidential
<1>1. IInv => RotatedWhileConfidential
  BY DEF IInv
<1> QED
  BY <1>1, IInvHolds, PTL
==============================================================================
