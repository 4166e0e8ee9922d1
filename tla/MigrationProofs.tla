-------------------------- MODULE MigrationProofs --------------------------
(***************************************************************************)
(* Theorems about Migration, for any keys, contents and number of retries. *)
(***************************************************************************)
EXTENDS Migration, TLAPS

-----------------------------------------------------------------------------
(* Manifests.                                                              *)

LEMMA ManifestDomain ==
    ASSUME NEW m \in Manifests
    PROVE  /\ DOMAIN m \subseteq Keys
           /\ m \in [DOMAIN m -> Row]
           /\ \A k \in DOMAIN m : m[k] \in Row
BY DEF Manifests

LEMMA IsManifest ==
    ASSUME NEW ks \in SUBSET Keys, NEW m \in [ks -> Row]
    PROVE  m \in Manifests
BY DEF Manifests

LEMMA NoRowsIsManifest == NoRows \in Manifests /\ DOMAIN NoRows = {}
<1>1. NoRows \in [{} -> Row] /\ DOMAIN NoRows = {}
  BY DEF NoRows
<1>. QED
  BY <1>1, IsManifest

\* A command that replaces one row.
LEMMA ReplaceRow ==
    ASSUME NEW m \in Manifests, NEW k \in DOMAIN m, NEW row \in Row
    PROVE  /\ [m EXCEPT ![k] = row] \in Manifests
           /\ DOMAIN [m EXCEPT ![k] = row] = DOMAIN m
           /\ [m EXCEPT ![k] = row][k] = row
           /\ \A j \in DOMAIN m \ {k} : [m EXCEPT ![k] = row][j] = m[j]
<1>1. DOMAIN m \in SUBSET Keys /\ m \in [DOMAIN m -> Row]
  BY ManifestDomain
<1>2. [m EXCEPT ![k] = row] \in [DOMAIN m -> Row]
  BY <1>1
<1>. QED
  BY <1>1, <1>2, IsManifest

-----------------------------------------------------------------------------
(* Type correctness.                                                       *)

\* What a command still has to do lies within the rows it loaded, and no key
\* is tried more often than allowed.
WorkIsKnown ==
    /\ tool.page \subseteq DOMAIN tool.rows
    /\ tool.cmd \in {"copy", "verify"} => tool.todo \subseteq DOMAIN tool.rows
    /\ \A k \in tool.todo : tool.tries[k] < Attempts

WellTyped == TypeOK /\ WorkIsKnown

LEMMA NoToolTyped == NoTool \in Tool
BY NoRowsIsManifest, SomeAttempts DEF NoTool, Tool

LEMMA InitWellTyped == Init => WellTyped
<1>. SUFFICES ASSUME Init PROVE WellTyped
  OBVIOUS
<1>1. TypeOK
  BY NoToolTyped, NoRowsIsManifest DEF Init, TypeOK
<1>2. WorkIsKnown
  BY NoRowsIsManifest DEF Init, WorkIsKnown, NoTool
<1>. QED
  BY <1>1, <1>2 DEF WellTyped

\* A failed attempt changes nothing but the bookkeeping of its key.
LEMMA FailedAttemptTyped ==
    ASSUME WellTyped, NEW k \in tool.todo, tool.cmd = "copy", FailedAttempt(k)
    PROVE  /\ tool' \in Tool
           /\ WorkIsKnown'
           /\ tool'.rows = tool.rows
<1>1. k \in Keys /\ tool \in Tool /\ tool.tries[k] \in Nat /\ tool.tries[k] < Attempts
  BY SomeAttempts DEF WellTyped, TypeOK, WorkIsKnown, Tool
<1>. DEFINE last == tool.tries[k] + 1 = Attempts
<1>2. tool' = [tool EXCEPT !.body[k] = NoObject, !.tries[k] = @ + 1,
                           !.todo = IF last THEN @ \ {k} ELSE @,
                           !.failed = @ \/ last]
  BY DEF FailedAttempt, Working
<1>3. tool.tries[k] + 1 \in 0 .. Attempts /\ (~last => tool.tries[k] + 1 < Attempts)
  BY <1>1, SomeAttempts
<1>. HIDE DEF last
<1>4. [tool.tries EXCEPT ![k] = @ + 1] \in [Keys -> 0 .. Attempts]
  BY <1>1, <1>3 DEF Tool
<1>5. tool' \in Tool
  BY <1>1, <1>2, <1>4, Zenon DEF Tool
<1>6. WorkIsKnown'
  BY <1>1, <1>2, <1>3 DEF WellTyped, WorkIsKnown, Tool
<1>. QED
  BY <1>1, <1>2, <1>5, <1>6 DEF Tool

\* The commands that begin.
LEMMA BeginTyped ==
    ASSUME WellTyped, NEW cmd \in {"inventory", "copy", "verify"},
           NEW flag \in BOOLEAN, NEW rows \in Manifests, NEW todo \in SUBSET Keys,
           cmd \in {"copy", "verify"} => todo \subseteq DOMAIN rows,
           Begin(cmd, flag, rows, todo)
    PROVE  WellTyped'
<1>1. tool' = [NoTool EXCEPT !.cmd = cmd, !.flag = flag, !.late = frozen,
                             !.rows = rows, !.todo = todo]
  BY DEF Begin
<1>2. tool' \in Tool
  BY <1>1, NoToolTyped DEF Tool, WellTyped, TypeOK
<1>3. WorkIsKnown'
  BY <1>1, SomeAttempts DEF WorkIsKnown, NoTool
<1>4. TypeOK'
  BY <1>2 DEF Begin, app, WellTyped, TypeOK
<1>. QED
  BY <1>3, <1>4 DEF WellTyped

LEMMA CommandTyped ==
    ASSUME WellTyped, Command
    PROVE  WellTyped'
<1>1. ASSUME NEW f \in BOOLEAN, InventoryBegin(f) PROVE WellTyped'
  BY <1>1, BeginTyped, NoRowsIsManifest DEF InventoryBegin
<1>2. ASSUME NEW f \in BOOLEAN, CopyBegin(f) PROVE WellTyped'
  <2>1. manifest \in Manifests /\ DOMAIN manifest \subseteq Keys
    BY ManifestDomain DEF WellTyped, TypeOK
  <2>. QED
    BY <1>2, <2>1, BeginTyped DEF CopyBegin
<1>3. CASE VerifyBegin
  <2>1. manifest \in Manifests /\ DOMAIN manifest \subseteq Keys
    BY ManifestDomain DEF WellTyped, TypeOK
  <2>. QED
    BY <1>3, <2>1, BeginTyped DEF VerifyBegin
<1>4. CASE DbCheck
  BY <1>4 DEF DbCheck, app, WellTyped, TypeOK, WorkIsKnown
<1>. QED
  BY <1>1, <1>2, <1>3, <1>4 DEF Command

LEMMA CrashTyped ==
    ASSUME WellTyped, Crash
    PROVE  WellTyped'
<1>1. TypeOK'
  BY NoToolTyped DEF WellTyped, TypeOK, Crash, app
<1>2. WorkIsKnown'
  BY DEF Crash, WorkIsKnown, NoTool
<1>. QED
  BY <1>1, <1>2 DEF WellTyped

\* The end of a command whose rows become the manifest.
LEMMA EndTyped ==
    ASSUME WellTyped, tool.cmd \in {"copy", "verify"}, End
    PROVE  WellTyped'
<1>1. TypeOK'
  BY NoToolTyped DEF WellTyped, TypeOK, End, app, Tool
<1>2. WorkIsKnown'
  BY DEF End, WorkIsKnown, NoTool
<1>. QED
  BY <1>1, <1>2 DEF WellTyped

LEMMA InventoryTyped ==
    ASSUME WellTyped,
           \/ \E ks \in SUBSET Keys : InventoryPage(ks)
           \/ \E k \in Keys : InventoryHead(k)
           \/ InventoryEnd
    PROVE  WellTyped'
<1>1. ASSUME NEW ks \in SUBSET Keys, InventoryPage(ks) PROVE WellTyped'
  <2>. DEFINE found == {k \in ks : src[k] \in Contents}
              rows == [k \in DOMAIN tool.rows \union found |->
                          IF k \in found THEN Listed(k) ELSE tool.rows[k]]
  <2>1. tool \in Tool /\ tool.rows \in Manifests /\ DOMAIN tool.rows \subseteq Keys
        /\ \A k \in DOMAIN tool.rows : tool.rows[k] \in Row
    BY ManifestDomain DEF WellTyped, TypeOK, Tool
  <2>2. tool' = [tool EXCEPT !.todo = @ \ ks, !.page = found, !.rows = rows]
        /\ UNCHANGED <<app, manifest, passed, dst>>
    BY <1>1 DEF InventoryPage, Working
  <2>3. \A k \in found : Listed(k) \in Row
    BY DEF Listed, Row
  <2>4. rows \in [DOMAIN tool.rows \union found -> Row]
    BY <2>1, <2>3
  <2>5. rows \in Manifests /\ DOMAIN rows = DOMAIN tool.rows \union found
    BY <2>1, <2>4, IsManifest
  <2>. HIDE DEF rows
  <2>6. tool' \in Tool
    BY <2>1, <2>2, <2>5 DEF Tool
  <2>7. WorkIsKnown'
    BY <1>1, <2>1, <2>2, <2>5 DEF WellTyped, WorkIsKnown, InventoryPage, Running, Tool
  <2>. QED
    BY <2>2, <2>6, <2>7 DEF WellTyped, TypeOK, app
<1>2. ASSUME NEW k \in Keys, InventoryHead(k) PROVE WellTyped'
  <2>. DEFINE sha == IF tool.flag THEN src[k] ELSE NoObject
              row == [tool.rows[k] EXCEPT !.sha = sha]
              rows == [tool.rows EXCEPT ![k] = row]
  <2>1. tool \in Tool /\ tool.rows \in Manifests /\ k \in DOMAIN tool.rows
        /\ tool.rows[k] \in Row
    BY <1>2, ManifestDomain DEF InventoryHead, WellTyped, TypeOK, WorkIsKnown, Tool
  <2>2. sha \in Contents \union {NoObject} /\ src[k] \in Contents
    BY <1>2 DEF InventoryHead
  <2>3. row \in Row
    BY <2>1, <2>2 DEF Row
  <2>4. tool' = [tool EXCEPT !.page = @ \ {k}, !.rows = rows]
        /\ UNCHANGED <<app, manifest, passed, dst>>
    BY <1>2 DEF InventoryHead, Working
  <2>. HIDE DEF row
  <2>5. rows \in Manifests /\ DOMAIN rows = DOMAIN tool.rows
    BY <2>1, <2>3, ReplaceRow
  <2>. HIDE DEF rows
  <2>6. tool' \in Tool
    BY <2>1, <2>4, <2>5 DEF Tool
  <2>7. WorkIsKnown'
    BY <2>1, <2>4, <2>5 DEF WellTyped, WorkIsKnown, Tool
  <2>. QED
    BY <2>4, <2>6, <2>7 DEF WellTyped, TypeOK, app
<1>3. CASE InventoryEnd
  <2>1. TypeOK'
    BY <1>3, NoToolTyped DEF WellTyped, TypeOK, InventoryEnd, app, Tool
  <2>2. WorkIsKnown'
    BY <1>3 DEF InventoryEnd, WorkIsKnown, NoTool
  <2>. QED
    BY <2>1, <2>2 DEF WellTyped
<1>. QED
  BY <1>1, <1>2, <1>3

LEMMA CopyTyped ==
    ASSUME WellTyped, NEW k \in Keys,
           CopyGet(k) \/ CopyGetFails(k) \/ CopyPut(k) \/ CopyPutFails(k)
    PROVE  WellTyped'
<1>1. tool \in Tool /\ tool.rows \in Manifests /\ tool.cmd = "copy"
      /\ k \in tool.todo /\ k \in DOMAIN tool.rows /\ tool.rows[k] \in Row
      /\ dst \in [Keys -> Contents \union {NoObject}]
  BY ManifestDomain DEF CopyGet, CopyGetFails, CopyPut, CopyPutFails, Running,
                        WellTyped, TypeOK, WorkIsKnown, Tool
<1>2. tool.body[k] # NoObject => [dst EXCEPT ![k] = tool.body[k]] \in [Keys -> Contents \union {NoObject}]
  BY <1>1 DEF Tool
<1>3. CASE CopyGet(k)
  <2>1. tool' = [tool EXCEPT !.body[k] = src[k]] /\ src[k] \in Contents
        /\ UNCHANGED <<app, manifest, passed, dst>>
    BY <1>3 DEF CopyGet, Working
  <2>2. tool' \in Tool
    BY <1>1, <2>1 DEF Tool
  <2>3. WorkIsKnown'
    BY <1>1, <2>1 DEF WellTyped, WorkIsKnown, Tool
  <2>. QED
    BY <2>1, <2>2, <2>3 DEF WellTyped, TypeOK, app
<1>4. ASSUME FailedAttempt(k), dst' \in [Keys -> Contents \union {NoObject}] PROVE WellTyped'
  <2>1. tool' \in Tool /\ WorkIsKnown'
    BY <1>1, <1>4, FailedAttemptTyped
  <2>. QED
    BY <1>4, <2>1 DEF FailedAttempt, Working, WellTyped, TypeOK, app
<1>5. ASSUME CopyPut(k), Expected(k) PROVE WellTyped'
  <2>. DEFINE row == [tool.rows[k] EXCEPT !.copied = TRUE, !.sha = tool.body[k]]
              rows == [tool.rows EXCEPT ![k] = row]
  <2>1. row \in Row
    BY <1>1 DEF Row, Tool
  <2>2. tool' = [tool EXCEPT !.todo = @ \ {k}, !.body[k] = NoObject, !.rows = rows]
    BY <1>1, <1>5 DEF CopyPut, Working, Tool, Row
  <2>3. dst' = [dst EXCEPT ![k] = tool.body[k]] /\ tool.body[k] # NoObject
        /\ UNCHANGED <<app, manifest, passed>>
    BY <1>5 DEF CopyPut, Working
  <2>. HIDE DEF row
  <2>4. rows \in Manifests /\ DOMAIN rows = DOMAIN tool.rows
    BY <1>1, <2>1, ReplaceRow
  <2>. HIDE DEF rows
  <2>5. tool' \in Tool
    BY <1>1, <2>2, <2>4 DEF Tool
  <2>6. WorkIsKnown'
    BY <1>1, <2>2, <2>4 DEF WellTyped, WorkIsKnown, Tool
  <2>. QED
    BY <1>2, <2>3, <2>5, <2>6 DEF WellTyped, TypeOK, app
<1>. QED
  BY <1>1, <1>2, <1>3, <1>4, <1>5 DEF CopyGetFails, CopyPut, CopyPutFails

LEMMA VerifyTyped ==
    ASSUME WellTyped, NEW k \in Keys, VerifyRow(k) \/ VerifyRowFails(k)
    PROVE  WellTyped'
<1>1. tool \in Tool /\ tool.rows \in Manifests /\ tool.cmd = "verify"
      /\ k \in tool.todo /\ k \in DOMAIN tool.rows /\ tool.rows[k] \in Row
      /\ UNCHANGED <<app, manifest, passed, dst>>
  BY ManifestDomain DEF VerifyRow, VerifyRowFails, Running, Working,
                        WellTyped, TypeOK, WorkIsKnown, Tool
<1>2. ASSUME NEW row \in Row, NEW failed \in BOOLEAN,
             tool' = [tool EXCEPT !.todo = @ \ {k}, !.failed = failed,
                                  !.rows = [tool.rows EXCEPT ![k] = row]]
      PROVE  WellTyped'
  <2>. DEFINE rows == [tool.rows EXCEPT ![k] = row]
  <2>1. rows \in Manifests /\ DOMAIN rows = DOMAIN tool.rows
    BY <1>1, ReplaceRow
  <2>2. tool' = [tool EXCEPT !.todo = @ \ {k}, !.failed = failed, !.rows = rows]
    BY <1>2
  <2>. HIDE DEF rows
  <2>3. tool' \in Tool
    BY <1>1, <2>1, <2>2 DEF Tool
  <2>4. WorkIsKnown'
    BY <1>1, <2>1, <2>2 DEF WellTyped, WorkIsKnown, Tool
  <2>. QED
    BY <1>1, <2>3, <2>4 DEF WellTyped, TypeOK, app
<1>3. CASE VerifyRow(k)
  <2>. DEFINE row == [tool.rows[k] EXCEPT !.sha = Reference(k), !.size = Size[src[k]],
                                          !.verified = TRUE]
  <2>1. Reference(k) \in Contents /\ src[k] \in Contents
    BY <1>3, <1>1 DEF VerifyRow, SameOnBothSides
  <2>2. row \in Row
    BY <1>1, <2>1 DEF Row
  <2>3. tool' = [tool EXCEPT !.todo = @ \ {k}, !.failed = tool.failed,
                             !.rows = [tool.rows EXCEPT ![k] = row]]
    BY <1>1, <1>3 DEF VerifyRow, Working, Tool
  <2>. QED
    BY <1>1, <1>2, <2>2, <2>3 DEF Tool
<1>4. CASE VerifyRowFails(k)
  <2>. DEFINE row == [tool.rows[k] EXCEPT !.verified = FALSE]
  <2>1. row \in Row
    BY <1>1 DEF Row
  <2>2. tool' = [tool EXCEPT !.todo = @ \ {k}, !.failed = TRUE,
                             !.rows = [tool.rows EXCEPT ![k] = row]]
    BY <1>1, <1>4 DEF VerifyRowFails, Working, Tool
  <2>. QED
    BY <1>2, <2>1, <2>2
<1>. QED
  BY <1>3, <1>4

LEMMA AppTyped ==
    ASSUME WellTyped, AppStep
    PROVE  WellTyped'
<1>. USE KeysHoldContents
<1>1. ASSUME NEW k \in Keys, NEW c \in Contents, Write(k, c) PROVE WellTyped'
  BY <1>1 DEF Write, WellTyped, TypeOK, WorkIsKnown
<1>2. ASSUME NEW k \in Keys, Register(k) \/ DeleteObject(k) \/ Unregister(k)
      PROVE  WellTyped'
  BY <1>2 DEF Register, DeleteObject, Unregister, WellTyped, TypeOK, WorkIsKnown
<1>3. CASE Freeze
  BY <1>3 DEF Freeze, WellTyped, TypeOK, WorkIsKnown
<1>. QED
  BY <1>1, <1>2, <1>3 DEF AppStep

LEMMA NextWellTyped == WellTyped /\ [Next]_vars => WellTyped'
<1>. SUFFICES ASSUME WellTyped, [Next]_vars PROVE WellTyped'
  OBVIOUS
<1>1. CASE ToolStep
  <2>1. CASE CopyEnd \/ VerifyEnd
    BY <2>1, EndTyped DEF CopyEnd, VerifyEnd, Running
  <2>. QED
    BY <1>1, <2>1, InventoryTyped, CopyTyped, VerifyTyped, CrashTyped DEF ToolStep
<1>2. CASE UNCHANGED vars
  BY <1>2 DEF vars, WellTyped, TypeOK, WorkIsKnown
<1>. QED
  BY <1>1, <1>2, AppTyped, CommandTyped DEF Next

\* Whatever the catalogue, the operator and the stores do, the manifest stays
\* a list of proper rows and no key is tried more often than allowed.
THEOREM TypeCorrect == Spec => []TypeOK
<1>1. Spec => []WellTyped
  BY InitWellTyped, NextWellTyped, PTL DEF Spec
<1>2. WellTyped => TypeOK
  BY DEF WellTyped
<1>. QED
  BY <1>1, <1>2, PTL

-----------------------------------------------------------------------------
(* What the steps of a command do to its rows and to the destination.      *)

LEMMA InventoryEffect ==
    ASSUME WellTyped,
           \/ \E ks \in SUBSET Keys : InventoryPage(ks)
           \/ \E k \in Keys : InventoryHead(k)
    PROVE  /\ tool.cmd = "inventory"
           /\ tool'.cmd = tool.cmd /\ tool'.late = tool.late /\ tool'.body = tool.body
           /\ UNCHANGED <<app, manifest, passed, dst>>
           /\ \A k \in DOMAIN tool'.rows :
                 \/ k \in DOMAIN tool.rows /\ tool'.rows[k] = tool.rows[k]
                 \/ /\ tool'.rows[k].sha \in {NoObject, src[k]}
                    /\ tool'.rows[k].sha \in Contents \union {NoObject}
                    /\ \/ /\ k \in DOMAIN tool.rows
                          /\ tool'.rows[k].copied = tool.rows[k].copied
                          /\ tool'.rows[k].verified = tool.rows[k].verified
                       \/ ~tool'.rows[k].copied /\ ~tool'.rows[k].verified
<1>1. ASSUME NEW ks \in SUBSET Keys, InventoryPage(ks)
      PROVE  /\ tool.cmd = "inventory"
             /\ tool'.cmd = tool.cmd /\ tool'.late = tool.late /\ tool'.body = tool.body
             /\ UNCHANGED <<app, manifest, passed, dst>>
             /\ \A k \in DOMAIN tool'.rows :
                   \/ k \in DOMAIN tool.rows /\ tool'.rows[k] = tool.rows[k]
                   \/ /\ tool'.rows[k].sha = NoObject
                      /\ ~tool'.rows[k].copied /\ ~tool'.rows[k].verified
  <2>1. \A k \in Keys : Listed(k).sha = NoObject /\ ~Listed(k).copied /\ ~Listed(k).verified
    BY DEF Listed
  <2>. QED
    BY <1>1, <2>1 DEF InventoryPage, Running, Working, WellTyped, TypeOK, Tool
<1>2. ASSUME NEW k \in Keys, InventoryHead(k)
      PROVE  /\ tool.cmd = "inventory"
             /\ tool'.cmd = tool.cmd /\ tool'.late = tool.late /\ tool'.body = tool.body
             /\ UNCHANGED <<app, manifest, passed, dst>>
             /\ DOMAIN tool'.rows = DOMAIN tool.rows
             /\ \A j \in DOMAIN tool.rows \ {k} : tool'.rows[j] = tool.rows[j]
             /\ k \in DOMAIN tool.rows
             /\ src[k] \in Contents /\ tool'.rows[k].sha \in {NoObject, src[k]}
             /\ tool'.rows[k].copied = tool.rows[k].copied
             /\ tool'.rows[k].verified = tool.rows[k].verified
  <2>. DEFINE row == [tool.rows[k] EXCEPT !.sha = IF tool.flag THEN src[k] ELSE NoObject]
  <2>1. tool.rows \in Manifests /\ k \in DOMAIN tool.rows /\ tool.rows[k] \in Row
    BY <1>2, ManifestDomain DEF InventoryHead, WellTyped, TypeOK, WorkIsKnown, Tool
  <2>2. row \in Row /\ row.sha \in {NoObject, src[k]}
        /\ row.copied = tool.rows[k].copied /\ row.verified = tool.rows[k].verified
    BY <1>2, <2>1 DEF Row, InventoryHead
  <2>3. tool' = [tool EXCEPT !.page = @ \ {k}, !.rows = [tool.rows EXCEPT ![k] = row]]
    BY <1>2 DEF InventoryHead, Working
  <2>. HIDE DEF row
  <2>4. tool'.rows = [tool.rows EXCEPT ![k] = row] /\ tool'.cmd = tool.cmd
        /\ tool'.late = tool.late /\ tool'.body = tool.body
    BY <2>3 DEF WellTyped, TypeOK, Tool
  <2>5. tool.cmd = "inventory" /\ src[k] \in Contents
        /\ UNCHANGED <<app, manifest, passed, dst>>
    BY <1>2 DEF InventoryHead, Running, Working
  <2>. QED
    BY <2>1, <2>2, <2>4, <2>5, ReplaceRow
<1>3. ASSUME NEW k \in Keys, InventoryHead(k), NEW j \in DOMAIN tool'.rows
      PROVE  \/ j \in DOMAIN tool.rows /\ tool'.rows[j] = tool.rows[j]
             \/ /\ tool'.rows[j].sha \in {NoObject, src[j]}
                /\ tool'.rows[j].sha \in Contents \union {NoObject}
                /\ j \in DOMAIN tool.rows
                /\ tool'.rows[j].copied = tool.rows[j].copied
                /\ tool'.rows[j].verified = tool.rows[j].verified
  <2>1. CASE j = k
    BY <1>2, <1>3, <2>1
  <2>2. CASE j # k
    BY <1>2, <1>3, <2>2
  <2>. QED
    BY <2>1, <2>2
<1>. QED
  <2>1. CASE \E ks \in SUBSET Keys : InventoryPage(ks)
    BY <1>1, <2>1
  <2>2. CASE \E k \in Keys : InventoryHead(k)
    BY <1>2, <1>3, <2>2
  <2>. QED
    BY <2>1, <2>2

\* The destination gets what was read, and only a body that is what its row
\* says is recorded.
LEMMA CopyEffect ==
    ASSUME WellTyped, NEW k \in Keys,
           CopyGet(k) \/ CopyGetFails(k) \/ CopyPut(k) \/ CopyPutFails(k)
    PROVE  /\ tool.cmd = "copy" /\ k \in DOMAIN tool.rows
           /\ tool'.cmd = tool.cmd /\ tool'.late = tool.late
           /\ UNCHANGED <<app, manifest, passed>>
           /\ DOMAIN tool'.rows = DOMAIN tool.rows
           /\ \A j \in DOMAIN tool.rows \ {k} : tool'.rows[j] = tool.rows[j]
           /\ \/ tool'.rows[k] = tool.rows[k]
              \/ /\ tool'.rows[k].sha = tool.body[k] /\ tool.body[k] \in Contents
                 /\ tool.rows[k].sha \in {NoObject, tool.body[k]}
                 /\ dst' = [dst EXCEPT ![k] = tool.body[k]]
           /\ \/ dst' = dst
              \/ tool.body[k] \in Contents /\ dst' = [dst EXCEPT ![k] = tool.body[k]]
           /\ \A j \in Keys :
                 \/ tool'.body[j] \in {NoObject, tool.body[j]}
                 \/ tool'.body[j] = src[j] /\ src[j] \in Contents
<1>1. tool \in Tool /\ tool.rows \in Manifests /\ tool.cmd = "copy"
      /\ k \in tool.todo /\ k \in DOMAIN tool.rows /\ tool.rows[k] \in Row
  BY ManifestDomain DEF CopyGet, CopyGetFails, CopyPut, CopyPutFails, Running,
                        WellTyped, TypeOK, WorkIsKnown, Tool
<1>2. CASE CopyGet(k)
  BY <1>1, <1>2 DEF CopyGet, Working, Tool
<1>3. ASSUME FailedAttempt(k)
      PROVE  /\ tool'.cmd = tool.cmd /\ tool'.late = tool.late
             /\ UNCHANGED <<app, manifest, passed>> /\ tool'.rows = tool.rows
             /\ \A j \in Keys : tool'.body[j] \in {NoObject, tool.body[j]}
  BY <1>1, <1>3 DEF FailedAttempt, Working, Tool
<1>4. ASSUME CopyPut(k), Expected(k)
      PROVE  /\ tool'.cmd = tool.cmd /\ tool'.late = tool.late
             /\ UNCHANGED <<app, manifest, passed>>
             /\ \A j \in Keys : tool'.body[j] \in {NoObject, tool.body[j]}
             /\ DOMAIN tool'.rows = DOMAIN tool.rows
             /\ \A j \in DOMAIN tool.rows \ {k} : tool'.rows[j] = tool.rows[j]
             /\ tool'.rows[k].sha = tool.body[k]
             /\ tool.rows[k].sha \in {NoObject, tool.body[k]}
  <2>. DEFINE row == [tool.rows[k] EXCEPT !.copied = TRUE, !.sha = tool.body[k]]
  <2>1. row \in Row /\ row.sha = tool.body[k]
    BY <1>1 DEF Row, Tool
  <2>2. tool' = [tool EXCEPT !.todo = @ \ {k}, !.body[k] = NoObject,
                             !.rows = [tool.rows EXCEPT ![k] = row]]
    BY <1>1, <1>4 DEF CopyPut, Working, Tool, Row
  <2>3. tool'.rows = [tool.rows EXCEPT ![k] = row]
    BY <1>1, <2>2 DEF Tool
  <2>. HIDE DEF row
  <2>. QED
    BY <1>1, <1>4, <2>1, <2>2, <2>3, ReplaceRow DEF CopyPut, Working, Expected, Tool
<1>5. tool.body[k] # NoObject => tool.body[k] \in Contents
  BY <1>1 DEF Tool
<1>. QED
  BY <1>1, <1>2, <1>3, <1>4, <1>5 DEF CopyGetFails, CopyPut, CopyPutFails

\* A row that verify accepts is the same on both sides.
LEMMA VerifyEffect ==
    ASSUME WellTyped, NEW k \in Keys, VerifyRow(k) \/ VerifyRowFails(k)
    PROVE  /\ tool.cmd = "verify" /\ k \in DOMAIN tool.rows
           /\ tool'.cmd = tool.cmd /\ tool'.late = tool.late /\ tool'.body = tool.body
           /\ tool'.todo = tool.todo \ {k}
           /\ UNCHANGED <<app, manifest, passed, dst>>
           /\ DOMAIN tool'.rows = DOMAIN tool.rows
           /\ \A j \in DOMAIN tool.rows \ {k} : tool'.rows[j] = tool.rows[j]
           /\ tool'.rows[k].copied = tool.rows[k].copied
           /\ \/ /\ tool'.failed = tool.failed
                 /\ src[k] \in Contents /\ dst[k] \in Contents
                 /\ Size[src[k]] = Size[dst[k]]
                 /\ tool'.rows[k].sha = dst[k]
                 /\ tool.rows[k].sha \in {NoObject, dst[k]}
              \/ /\ tool'.failed = TRUE
                 /\ ~tool'.rows[k].verified
                 /\ tool'.rows[k].sha = tool.rows[k].sha
<1>1. tool \in Tool /\ tool.rows \in Manifests /\ tool.cmd = "verify"
      /\ k \in DOMAIN tool.rows /\ tool.rows[k] \in Row
      /\ UNCHANGED <<app, manifest, passed, dst>>
  BY ManifestDomain DEF VerifyRow, VerifyRowFails, Running, Working,
                        WellTyped, TypeOK, WorkIsKnown, Tool
<1>2. CASE VerifyRow(k)
  <2>. DEFINE row == [tool.rows[k] EXCEPT !.sha = Reference(k), !.size = Size[src[k]],
                                          !.verified = TRUE]
  <2>1. src[k] \in Contents /\ dst[k] \in Contents /\ Size[src[k]] = Size[dst[k]]
        /\ Reference(k) = dst[k]
    BY <1>2 DEF VerifyRow, SameOnBothSides
  <2>2. tool.rows[k].sha \in {NoObject, dst[k]}
    BY <2>1 DEF Reference
  <2>3. row \in Row /\ row.sha = dst[k] /\ row.copied = tool.rows[k].copied
    BY <1>1, <2>1 DEF Row
  <2>4. tool' = [tool EXCEPT !.todo = @ \ {k}, !.rows = [tool.rows EXCEPT ![k] = row]]
    BY <1>1, <1>2 DEF VerifyRow, Working, Tool
  <2>. HIDE DEF row
  <2>5. tool'.rows = [tool.rows EXCEPT ![k] = row] /\ tool'.todo = tool.todo \ {k}
        /\ tool'.cmd = tool.cmd /\ tool'.late = tool.late /\ tool'.body = tool.body
        /\ tool'.failed = tool.failed
    BY <1>1, <2>4 DEF Tool
  <2>. QED
    BY <1>1, <2>1, <2>2, <2>3, <2>5, ReplaceRow
<1>3. CASE VerifyRowFails(k)
  <2>. DEFINE row == [tool.rows[k] EXCEPT !.verified = FALSE]
  <2>1. row \in Row /\ row.sha = tool.rows[k].sha /\ row.copied = tool.rows[k].copied
        /\ ~row.verified
    BY <1>1 DEF Row
  <2>2. tool' = [tool EXCEPT !.todo = @ \ {k}, !.failed = TRUE,
                             !.rows = [tool.rows EXCEPT ![k] = row]]
    BY <1>1, <1>3 DEF VerifyRowFails, Working, Tool
  <2>. HIDE DEF row
  <2>3. tool'.rows = [tool.rows EXCEPT ![k] = row] /\ tool'.todo = tool.todo \ {k}
        /\ tool'.cmd = tool.cmd /\ tool'.late = tool.late /\ tool'.body = tool.body
        /\ tool'.failed = TRUE
    BY <1>1, <2>2 DEF Tool
  <2>. QED
    BY <1>1, <2>1, <2>3, ReplaceRow
<1>. QED
  BY <1>2, <1>3
\* The commands that begin do so without a body, a failure or anything done.
LEMMA BeginEffect ==
    ASSUME Command
    PROVE  /\ UNCHANGED <<app, dst, manifest>>
           /\ \/ /\ DbCheck
                 /\ tool' = tool
              \/ /\ tool'.body = [k \in Keys |-> NoObject]
                 /\ tool'.late = frozen
                 /\ \/ /\ tool'.cmd = "inventory" /\ tool'.rows = NoRows
                       /\ passed' = passed \ {"inventory"}
                    \/ /\ tool'.cmd = "copy" /\ tool'.rows = manifest
                       /\ passed' = passed \ {"copy"}
                    \/ /\ tool'.cmd = "verify" /\ tool'.rows = manifest
                       /\ tool'.todo = DOMAIN manifest
                       /\ passed' = passed \ {"verify"}
BY DEF Command, InventoryBegin, CopyBegin, VerifyBegin, DbCheck, Begin, NoTool

-----------------------------------------------------------------------------
(* What the manifest records is stored.                                    *)

HeldBy(k) == CanHold[k] \union {NoObject}

\* What is in the two stores, read or recorded is a content of its key.
Contained ==
    /\ \A k \in Keys : /\ src[k] \in HeldBy(k) \union {Gone}
                       /\ dst[k] \in HeldBy(k)
                       /\ tool.body[k] \in HeldBy(k)
    /\ \A k \in DOMAIN manifest : manifest[k].sha \in HeldBy(k)
    /\ \A k \in DOMAIN tool.rows : tool.rows[k].sha \in HeldBy(k)

Marked(row) == row.copied \/ row.verified

RowsStored(rows) ==
    \A k \in DOMAIN rows :
        Marked(rows[k]) => dst[k] \in Contents /\ rows[k].sha # NoObject

StoredInv ==
    /\ Contained
    /\ RowsStored(manifest)
    /\ RowsStored(tool.rows)
    /\ tool.cmd = "inventory" => \A k \in DOMAIN tool.rows : ~Marked(tool.rows[k])

\* The invariant says that the recorded SHA-256 is one of the contents of the
\* key, hence the content that is stored if there is but one.
LEMMA StoredInvSuffices == WellTyped /\ StoredInv => RecordedIsStored
<1>. SUFFICES ASSUME WellTyped, StoredInv, NEW k \in DOMAIN manifest,
                     manifest[k].copied \/ manifest[k].verified
              PROVE  dst[k] \in Contents /\ (Unique(k) => dst[k] = manifest[k].sha)
  BY DEF RecordedIsStored
<1>1. k \in Keys
  BY ManifestDomain DEF WellTyped, TypeOK
<1>2. dst[k] \in Contents /\ manifest[k].sha # NoObject
  BY DEF StoredInv, RowsStored, Marked
<1>3. dst[k] \in CanHold[k] /\ manifest[k].sha \in CanHold[k]
  BY <1>1, <1>2, AbsentIsNoContent DEF StoredInv, Contained, HeldBy
<1>. QED
  BY <1>2, <1>3 DEF Unique

LEMMA InitStored == Init => StoredInv
BY NoRowsIsManifest
   DEF Init, StoredInv, Contained, RowsStored, HeldBy, NoTool

LEMMA AppStored ==
    ASSUME WellTyped, StoredInv, AppStep
    PROVE  StoredInv'
<1>1. UNCHANGED <<dst, manifest, tool>>
  BY DEF AppStep, Write, Register, DeleteObject, Unregister, Freeze
<1>2. \A k \in Keys : src'[k] \in HeldBy(k) \union {Gone}
  BY DEF AppStep, Write, Register, DeleteObject, Unregister, Freeze,
         StoredInv, Contained, HeldBy, WellTyped, TypeOK
<1>. QED
  BY <1>1, <1>2 DEF StoredInv, Contained, RowsStored, HeldBy

LEMMA CommandStored ==
    ASSUME WellTyped, StoredInv, Command
    PROVE  StoredInv'
<1>1. UNCHANGED <<app, dst, manifest>>
  BY BeginEffect
<1>2. CASE tool' = tool
  BY <1>1, <1>2 DEF app, StoredInv, Contained, RowsStored, HeldBy
<1>3. CASE tool'.body = [k \in Keys |-> NoObject] /\ tool'.rows = NoRows
  BY <1>1, <1>3, NoRowsIsManifest DEF app, StoredInv, Contained, RowsStored, HeldBy
<1>4. CASE tool'.body = [k \in Keys |-> NoObject] /\ tool'.rows = manifest
           /\ tool'.cmd # "inventory"
  BY <1>1, <1>4 DEF app, StoredInv, Contained, RowsStored, HeldBy
<1>. QED
  BY <1>2, <1>3, <1>4, BeginEffect

LEMMA InventoryStored ==
    ASSUME WellTyped, StoredInv,
           \/ \E ks \in SUBSET Keys : InventoryPage(ks)
           \/ \E k \in Keys : InventoryHead(k)
    PROVE  StoredInv'
<1>1. UNCHANGED <<app, manifest, dst>> /\ tool'.body = tool.body
      /\ tool.cmd = "inventory" /\ tool'.cmd = "inventory"
  BY InventoryEffect
<1>2. \A k \in DOMAIN tool.rows : ~Marked(tool.rows[k])
  BY <1>1 DEF StoredInv
<1>3. \A k \in DOMAIN tool'.rows : ~Marked(tool'.rows[k])
  BY <1>2, InventoryEffect DEF Marked
<1>4. \A k \in DOMAIN tool'.rows : k \in Keys
  BY ManifestDomain, NextWellTyped DEF Next, ToolStep, WellTyped, TypeOK, Tool
<1>5. \A k \in DOMAIN tool'.rows : tool'.rows[k].sha \in HeldBy(k)
  <2>. SUFFICES ASSUME NEW k \in DOMAIN tool'.rows PROVE tool'.rows[k].sha \in HeldBy(k)
    OBVIOUS
  <2>1. src[k] \in HeldBy(k) \union {Gone}
    BY <1>4 DEF StoredInv, Contained
  <2>2. k \in DOMAIN tool.rows => tool.rows[k].sha \in HeldBy(k)
    BY DEF StoredInv, Contained
  <2>3. NoObject \in HeldBy(k)
    BY DEF HeldBy
  <2>. QED
    BY <2>1, <2>2, <2>3, InventoryEffect, AbsentIsNoContent
<1>. QED
  BY <1>1, <1>3, <1>5 DEF app, StoredInv, Contained, RowsStored, HeldBy

LEMMA CopyStored ==
    ASSUME WellTyped, StoredInv, NEW k \in Keys,
           CopyGet(k) \/ CopyGetFails(k) \/ CopyPut(k) \/ CopyPutFails(k)
    PROVE  StoredInv'
<1>1. UNCHANGED <<app, manifest, passed>> /\ tool'.cmd = "copy"
      /\ DOMAIN tool'.rows = DOMAIN tool.rows
  BY CopyEffect
<1>2. \/ dst' = dst
      \/ tool.body[k] \in Contents /\ dst' = [dst EXCEPT ![k] = tool.body[k]]
  BY CopyEffect
<1>3. \A j \in Keys : dst'[j] \in HeldBy(j) /\ (dst[j] \in Contents => dst'[j] \in Contents)
  BY <1>2 DEF StoredInv, Contained, WellTyped, TypeOK
<1>4. \A j \in Keys : tool'.body[j] \in HeldBy(j)
  <2>. SUFFICES ASSUME NEW j \in Keys PROVE tool'.body[j] \in HeldBy(j)
    OBVIOUS
  <2>1. src[j] \in HeldBy(j) \union {Gone} /\ tool.body[j] \in HeldBy(j)
        /\ NoObject \in HeldBy(j)
    BY DEF StoredInv, Contained, HeldBy
  <2>2. \/ tool'.body[j] \in {NoObject, tool.body[j]}
        \/ tool'.body[j] = src[j] /\ src[j] \in Contents
    BY CopyEffect
  <2>. QED
    BY <2>1, <2>2, AbsentIsNoContent
<1>5. \A j \in DOMAIN tool.rows :
         \/ tool'.rows[j] = tool.rows[j]
         \/ tool'.rows[j].sha = tool.body[j] /\ tool.body[j] \in Contents
            /\ dst'[j] = tool.body[j] /\ j \in Keys
  BY CopyEffect DEF WellTyped, TypeOK
<1>6. \A j \in DOMAIN tool'.rows : tool'.rows[j].sha \in HeldBy(j)
  BY <1>1, <1>5 DEF StoredInv, Contained
<1>7. DOMAIN manifest \subseteq Keys /\ DOMAIN tool.rows \subseteq Keys
  BY ManifestDomain DEF WellTyped, TypeOK, Tool
<1>8. RowsStored(manifest)'
  BY <1>1, <1>3, <1>7 DEF StoredInv, RowsStored
<1>9. RowsStored(tool.rows)'
  BY <1>1, <1>3, <1>5, <1>7, AbsentIsNoContent DEF StoredInv, RowsStored
<1>. QED
  BY <1>1, <1>3, <1>4, <1>6, <1>8, <1>9 DEF app, StoredInv, Contained, HeldBy

LEMMA VerifyStored ==
    ASSUME WellTyped, StoredInv, NEW k \in Keys, VerifyRow(k) \/ VerifyRowFails(k)
    PROVE  StoredInv'
<1>1. UNCHANGED <<app, manifest, dst>> /\ tool'.cmd = "verify" /\ tool'.body = tool.body
      /\ DOMAIN tool'.rows = DOMAIN tool.rows
  BY VerifyEffect
<1>2. \A j \in DOMAIN tool.rows :
         \/ tool'.rows[j] = tool.rows[j]
         \/ tool'.rows[j].sha = dst[j] /\ dst[j] \in Contents /\ j \in Keys
         \/ tool'.rows[j].sha = tool.rows[j].sha
            /\ (Marked(tool'.rows[j]) => Marked(tool.rows[j]))
  BY VerifyEffect DEF Marked
<1>3. \A j \in DOMAIN tool'.rows : tool'.rows[j].sha \in HeldBy(j)
  BY <1>1, <1>2 DEF StoredInv, Contained
<1>4. RowsStored(tool.rows)'
  BY <1>1, <1>2, AbsentIsNoContent DEF StoredInv, RowsStored
<1>. QED
  BY <1>1, <1>3, <1>4 DEF app, StoredInv, Contained, RowsStored, HeldBy

\* The end of a command, which leaves no tool, and whose rows are the manifest
\* or are lost.
LEMMA EndEffect ==
    ASSUME InventoryEnd \/ CopyEnd \/ VerifyEnd \/ Crash
    PROVE  /\ UNCHANGED <<app, dst>>
           /\ tool' = NoTool
           /\ manifest' = tool.rows \/ manifest' = manifest
BY DEF InventoryEnd, CopyEnd, VerifyEnd, Crash, End

LEMMA EndStored ==
    ASSUME WellTyped, StoredInv, InventoryEnd \/ CopyEnd \/ VerifyEnd \/ Crash
    PROVE  StoredInv'
<1>1. tool'.cmd = "none" /\ tool'.rows = NoRows
      /\ \A k \in Keys : tool'.body[k] = NoObject
  BY EndEffect DEF NoTool
<1>. QED
  BY <1>1, EndEffect, NoRowsIsManifest
     DEF app, StoredInv, Contained, RowsStored, HeldBy

LEMMA NextStored == WellTyped /\ StoredInv /\ [Next]_vars => StoredInv'
<1>. SUFFICES ASSUME WellTyped, StoredInv, [Next]_vars PROVE StoredInv'
  OBVIOUS
<1>1. CASE ToolStep
  BY <1>1, InventoryStored, CopyStored, VerifyStored, EndStored DEF ToolStep
<1>2. CASE UNCHANGED vars
  BY <1>2 DEF vars, StoredInv, Contained, RowsStored, HeldBy
<1>. QED
  BY <1>1, <1>2, AppStored, CommandStored DEF Next

\* What the manifest calls copied or verified is in the destination, whatever
\* failed, crashed, was retried or was overwritten before.
THEOREM Recorded == Spec => []RecordedIsStored
<1>1. Init => WellTyped /\ StoredInv
  BY InitWellTyped, InitStored
<1>2. WellTyped /\ StoredInv /\ [Next]_vars => (WellTyped /\ StoredInv)'
  BY NextWellTyped, NextStored
<1>. QED
  BY <1>1, <1>2, StoredInvSuffices, PTL DEF Spec
-----------------------------------------------------------------------------
(* The cutover.                                                            *)

SameSize(k) ==
    src[k] \in Contents /\ dst[k] \in Contents /\ Size[dst[k]] = Size[src[k]]

\* copy and verify neither lose a key nor change a recorded SHA-256.
LoadedRows ==
    tool.cmd \in {"copy", "verify"} =>
        /\ DOMAIN tool.rows = DOMAIN manifest
        /\ \A k \in DOMAIN manifest :
              manifest[k].sha # NoObject => tool.rows[k].sha = manifest[k].sha

DbChecked == "db_check" \in passed => frozen /\ db \subseteq DOMAIN manifest

\* A verify that has not failed yet: what it has done is in place.
Verifying ==
    tool.cmd = "verify" /\ tool.late /\ ~tool.failed =>
        \A k \in DOMAIN tool.rows \ tool.todo :
            SameSize(k) /\ tool.rows[k].sha = dst[k]

\* A verify that passed: a copy of the source that is made after it brings
\* what the source holds for good.
Verified ==
    "verify" \in passed =>
        /\ frozen /\ tool.cmd # "verify"
        /\ \A k \in DOMAIN manifest :
              /\ SameSize(k) /\ manifest[k].sha \in Contents
              /\ dst[k] \in {src[k], manifest[k].sha}
              /\ tool.body[k] \in {NoObject, src[k]}

CutoverInv ==
    /\ tool.late => frozen
    /\ LoadedRows
    /\ DbChecked
    /\ Verifying
    /\ Verified

LEMMA CutoverInvSuffices == CutoverInv => CutoverIsComplete
BY DEF CutoverInv, CutoverIsComplete, DbChecked, Verified, SameSize

LEMMA InitCutover == Init => CutoverInv
BY DEF Init, CutoverInv, LoadedRows, DbChecked, Verifying, Verified, NoTool

\* Before the freeze nothing has passed, and after it nothing is written.
LEMMA AppCutover ==
    ASSUME CutoverInv, AppStep
    PROVE  CutoverInv'
<1>1. ~frozen /\ UNCHANGED <<dst, manifest, tool, passed>>
  BY DEF AppStep, Write, Register, DeleteObject, Unregister, Freeze
<1>2. "verify" \notin passed /\ "db_check" \notin passed /\ ~tool.late
  BY <1>1 DEF CutoverInv, DbChecked, Verified
<1>. QED
  BY <1>1, <1>2 DEF CutoverInv, LoadedRows, DbChecked, Verifying, Verified

LEMMA CommandCutover ==
    ASSUME WellTyped, CutoverInv, Command
    PROVE  CutoverInv'
<1>1. UNCHANGED <<app, dst, manifest>> /\ DOMAIN manifest \subseteq Keys
  BY BeginEffect, ManifestDomain DEF WellTyped, TypeOK
<1>2. CASE DbCheck
  BY <1>1, <1>2
     DEF DbCheck, app, CutoverInv, LoadedRows, DbChecked, Verifying, Verified, SameSize
<1>3. ASSUME tool'.body = [k \in Keys |-> NoObject], tool'.late = frozen,
             \/ /\ tool'.cmd = "inventory" /\ passed' = passed \ {"inventory"}
             \/ /\ tool'.cmd = "copy" /\ tool'.rows = manifest
                /\ passed' = passed \ {"copy"}
             \/ /\ tool'.cmd = "verify" /\ tool'.rows = manifest
                /\ tool'.todo = DOMAIN manifest
                /\ passed' = passed \ {"verify"}
      PROVE  CutoverInv'
  <2>1. LoadedRows' /\ (tool.late => frozen)'
    BY <1>1, <1>3 DEF app, LoadedRows
  <2>2. DbChecked'
    BY <1>1, <1>3 DEF app, CutoverInv, DbChecked
  <2>3. Verifying'
    BY <1>1, <1>3 DEF Verifying
  <2>4. Verified'
    BY <1>1, <1>3 DEF app, CutoverInv, Verified, SameSize
  <2>. QED
    BY <2>1, <2>2, <2>3, <2>4 DEF CutoverInv
<1>. QED
  BY <1>2, <1>3, BeginEffect

LEMMA InventoryCutover ==
    ASSUME WellTyped, CutoverInv,
           \/ \E ks \in SUBSET Keys : InventoryPage(ks)
           \/ \E k \in Keys : InventoryHead(k)
    PROVE  CutoverInv'
<1>1. UNCHANGED <<app, manifest, passed, dst>> /\ tool'.cmd = "inventory"
      /\ tool'.late = tool.late /\ tool'.body = tool.body
  BY InventoryEffect
<1>. QED
  BY <1>1 DEF app, CutoverInv, LoadedRows, DbChecked, Verifying, Verified, SameSize

LEMMA CopyCutover ==
    ASSUME WellTyped, CutoverInv, NEW k \in Keys,
           CopyGet(k) \/ CopyGetFails(k) \/ CopyPut(k) \/ CopyPutFails(k)
    PROVE  CutoverInv'
<1>1. UNCHANGED <<app, manifest, passed>> /\ tool.cmd = "copy" /\ tool'.cmd = "copy"
      /\ tool'.late = tool.late /\ DOMAIN tool'.rows = DOMAIN tool.rows
  BY CopyEffect
<1>2. \A j \in DOMAIN tool.rows :
         tool.rows[j].sha # NoObject => tool'.rows[j].sha = tool.rows[j].sha
  BY CopyEffect
<1>3. LoadedRows'
  BY <1>1, <1>2 DEF CutoverInv, LoadedRows
<1>4. Verified'
  <2>. SUFFICES ASSUME "verify" \in passed, NEW j \in DOMAIN manifest
                PROVE  /\ SameSize(j)' /\ dst'[j] \in {src[j], manifest[j].sha}
                       /\ tool'.body[j] \in {NoObject, src[j]}
    BY <1>1 DEF app, CutoverInv, Verified
  <2>1. j \in Keys
    BY ManifestDomain DEF WellTyped, TypeOK
  <2>2. /\ SameSize(j) /\ dst[j] \in {src[j], manifest[j].sha}
        /\ tool.body[j] \in {NoObject, src[j]}
    BY DEF CutoverInv, Verified
  <2>3. tool'.body[j] \in {NoObject, src[j]}
    BY <2>1, <2>2, CopyEffect
  <2>4. \/ dst'[j] = dst[j]
        \/ dst'[j] = tool.body[j] /\ tool.body[j] \in Contents
    BY <2>1, CopyEffect DEF WellTyped, TypeOK
  <2>5. dst'[j] \in {dst[j], src[j]}
    BY <2>2, <2>4, AbsentIsNoContent
  <2>. QED
    BY <1>1, <2>2, <2>3, <2>5 DEF app, SameSize
<1>. QED
  BY <1>1, <1>3, <1>4 DEF app, CutoverInv, DbChecked, Verifying

LEMMA VerifyCutover ==
    ASSUME WellTyped, CutoverInv, NEW k \in Keys, VerifyRow(k) \/ VerifyRowFails(k)
    PROVE  CutoverInv'
<1>1. UNCHANGED <<app, manifest, passed, dst>> /\ tool.cmd = "verify"
      /\ tool'.cmd = "verify" /\ tool'.late = tool.late /\ tool'.body = tool.body
      /\ DOMAIN tool'.rows = DOMAIN tool.rows /\ tool'.todo = tool.todo \ {k}
  BY VerifyEffect
<1>2. \A j \in DOMAIN tool.rows :
         tool.rows[j].sha # NoObject => tool'.rows[j].sha = tool.rows[j].sha
  BY VerifyEffect
<1>3. LoadedRows'
  BY <1>1, <1>2 DEF CutoverInv, LoadedRows
<1>4. Verifying'
  <2>. SUFFICES ASSUME tool'.late, ~tool'.failed,
                       NEW j \in DOMAIN tool.rows \ (tool.todo \ {k})
                PROVE  SameSize(j) /\ tool'.rows[j].sha = dst[j]
    BY <1>1 DEF app, Verifying, SameSize
  <2>1. ~tool.failed /\ SameSize(k) /\ tool'.rows[k].sha = dst[k]
    BY VerifyEffect DEF SameSize
  <2>2. CASE j # k
    <3>1. SameSize(j) /\ tool.rows[j].sha = dst[j]
      BY <1>1, <2>1, <2>2 DEF CutoverInv, Verifying
    <3>2. tool'.rows[j] = tool.rows[j]
      BY <2>2, VerifyEffect
    <3>. QED
      BY <3>1, <3>2
  <2>. QED
    BY <2>1, <2>2
<1>. QED
  BY <1>1, <1>3, <1>4 DEF app, CutoverInv, DbChecked, Verified, SameSize

\* A verify that ends without a failure has done every row of the manifest.
LEMMA EndCutover ==
    ASSUME WellTyped, CutoverInv, InventoryEnd \/ CopyEnd \/ VerifyEnd \/ Crash
    PROVE  CutoverInv'
<1>1. tool'.cmd = "none" /\ ~tool'.late /\ UNCHANGED <<app, dst>>
      /\ \A k \in Keys : tool'.body[k] = NoObject
  BY EndEffect DEF NoTool
<1>2. DOMAIN manifest \subseteq Keys /\ DOMAIN tool.rows \subseteq Keys
  BY ManifestDomain DEF WellTyped, TypeOK, Tool
<1>3. LoadedRows' /\ Verifying' /\ (tool.late => frozen)'
  BY <1>1 DEF LoadedRows, Verifying
<1>4. CASE InventoryEnd
  <2>1. passed' = {}
    BY <1>4 DEF InventoryEnd
  <2>. QED
    BY <1>3, <2>1 DEF CutoverInv, DbChecked, Verified
<1>5. CASE Crash
  <2>1. manifest' = manifest /\ passed' = passed
    BY <1>5 DEF Crash
  <2>. QED
    BY <1>1, <1>2, <1>3, <2>1 DEF app, CutoverInv, DbChecked, Verified, SameSize
<1>6. CASE CopyEnd \/ VerifyEnd
  <2>1. /\ manifest' = tool.rows /\ tool.todo = {}
        /\ DOMAIN tool.rows = DOMAIN manifest
        /\ \A k \in DOMAIN manifest :
              manifest[k].sha # NoObject => tool.rows[k].sha = manifest[k].sha
        /\ passed' = IF tool.late /\ ~tool.failed
                     THEN passed \union {tool.cmd} ELSE passed
        /\ tool.cmd \in {"copy", "verify"}
    BY <1>6 DEF CopyEnd, VerifyEnd, End, Running, CutoverInv, LoadedRows
  <2>2. DbChecked'
    BY <1>1, <2>1 DEF app, CutoverInv, DbChecked
  <2>3. CASE "verify" \in passed
    <3>1. \A k \in DOMAIN manifest :
             SameSize(k) /\ manifest[k].sha \in Contents /\ dst[k] \in {src[k], manifest[k].sha}
      BY <2>3 DEF CutoverInv, Verified
    <3>2. frozen
      BY <2>3 DEF CutoverInv, Verified
    <3>3. \A k \in DOMAIN manifest : tool.rows[k].sha = manifest[k].sha
      BY <2>1, <3>1, AbsentIsNoContent
    <3>4. Verified'
      BY <1>1, <1>2, <2>1, <3>1, <3>2, <3>3 DEF app, Verified, SameSize
    <3>. QED
      BY <1>3, <2>2, <3>4 DEF CutoverInv
  <2>4. CASE "verify" \notin passed /\ "verify" \in passed'
    <3>1. tool.cmd = "verify" /\ tool.late /\ ~tool.failed
      BY <2>1, <2>4
    <3>2. \A k \in DOMAIN tool.rows : SameSize(k) /\ tool.rows[k].sha = dst[k]
      BY <2>1, <3>1 DEF CutoverInv, Verifying
    <3>3. frozen
      BY <3>1 DEF CutoverInv
    <3>4. Verified'
      BY <1>1, <1>2, <2>1, <3>2, <3>3 DEF app, Verified, SameSize
    <3>. QED
      BY <1>3, <2>2, <3>4 DEF CutoverInv
  <2>5. CASE "verify" \notin passed'
    BY <1>3, <2>2, <2>5 DEF CutoverInv, Verified
  <2>. QED
    BY <2>3, <2>4, <2>5
<1>. QED
  BY <1>4, <1>5, <1>6

LEMMA NextCutover == WellTyped /\ CutoverInv /\ [Next]_vars => CutoverInv'
<1>. SUFFICES ASSUME WellTyped, CutoverInv, [Next]_vars PROVE CutoverInv'
  OBVIOUS
<1>1. CASE ToolStep
  BY <1>1, InventoryCutover, CopyCutover, VerifyCutover, EndCutover DEF ToolStep
<1>2. CASE UNCHANGED vars
  BY <1>2 DEF vars, CutoverInv, LoadedRows, DbChecked, Verifying, Verified, SameSize
<1>. QED
  BY <1>1, <1>2, AppCutover, CommandCutover DEF Next

\* A cutover made when the runbook allows it loses no object of the database:
\* verify and db-check, run after the freeze, are enough, whatever was
\* written, copied, interrupted or repeated before or between them.
THEOREM Cutover == Spec => []CutoverIsComplete
<1>1. Init => WellTyped /\ CutoverInv
  BY InitWellTyped, InitCutover
<1>2. WellTyped /\ CutoverInv /\ [Next]_vars => (WellTyped /\ CutoverInv)'
  BY NextWellTyped, NextCutover
<1>. QED
  BY <1>1, <1>2, CutoverInvSuffices, PTL DEF Spec

-----------------------------------------------------------------------------
(* Commands end.                                                           *)

LEMMA FailedAttemptAdvances ==
    ASSUME WellTyped, NEW k \in tool.todo, FailedAttempt(k)
    PROVE  tool'.todo \subseteq tool.todo /\ tool'.tries[k] > tool.tries[k]
<1>1. k \in Keys /\ tool.tries[k] \in Nat /\ tool \in Tool
  BY SomeAttempts DEF WellTyped, TypeOK, Tool
<1>. QED
  BY <1>1 DEF FailedAttempt, Working, Tool

LEMMA CopyAdvances ==
    ASSUME WellTyped, NEW k \in Keys,
           CopyGet(k) \/ CopyGetFails(k) \/ CopyPut(k) \/ CopyPutFails(k)
    PROVE  Advances
<1>1. k \in tool.todo /\ tool \in Tool
  BY DEF CopyGet, CopyGetFails, CopyPut, CopyPutFails, WellTyped, TypeOK
<1>2. CASE CopyGet(k)
  <2>1. tool' = [tool EXCEPT !.body[k] = src[k]] /\ src[k] # NoObject /\ tool.body[k] = NoObject
    BY <1>2, AbsentIsNoContent DEF CopyGet, Working
  <2>2. tool'.todo = tool.todo /\ tool'.tries = tool.tries /\ tool'.body[k] = src[k]
    BY <1>1, <2>1 DEF Tool
  <2>. QED
    BY <1>1, <2>1, <2>2 DEF Advances
<1>3. CASE FailedAttempt(k)
  BY <1>1, <1>3, FailedAttemptAdvances DEF Advances
<1>4. CASE CopyPut(k) /\ Expected(k)
  <2>1. tool'.todo = tool.todo \ {k}
    BY <1>1, <1>4 DEF CopyPut, Working, Tool
  <2>. QED
    BY <1>1, <2>1 DEF Advances
<1>. QED
  BY <1>2, <1>3, <1>4 DEF CopyGetFails, CopyPut, CopyPutFails

LEMMA InventoryAdvances ==
    ASSUME WellTyped,
           \/ \E ks \in SUBSET Keys : InventoryPage(ks)
           \/ \E k \in Keys : InventoryHead(k)
    PROVE  Advances
<1>1. tool \in Tool
  BY DEF WellTyped, TypeOK
<1>2. ASSUME NEW ks \in SUBSET Keys, InventoryPage(ks) PROVE Advances
  <2>1. tool'.todo = tool.todo \ ks /\ ks # {} /\ ks \subseteq tool.todo
    BY <1>1, <1>2 DEF InventoryPage, Working, Tool
  <2>. QED
    BY <2>1 DEF Advances
<1>3. ASSUME NEW k \in Keys, InventoryHead(k) PROVE Advances
  <2>. DEFINE row == [tool.rows[k] EXCEPT !.sha = IF tool.flag THEN src[k] ELSE NoObject]
              rows == [tool.rows EXCEPT ![k] = row]
  <2>1. tool' = [tool EXCEPT !.page = @ \ {k}, !.rows = rows] /\ k \in tool.page
    BY <1>1, <1>3 DEF InventoryHead, Working, Tool
  <2>. HIDE DEF row, rows
  <2>2. tool'.todo = tool.todo /\ tool'.page = tool.page \ {k}
    BY <1>1, <2>1 DEF Tool
  <2>. QED
    BY <2>1, <2>2 DEF Advances
<1>. QED
  BY <1>2, <1>3

LEMMA VerifyAdvances ==
    ASSUME WellTyped, NEW k \in Keys, VerifyRow(k) \/ VerifyRowFails(k)
    PROVE  Advances
<1>1. k \in tool.todo /\ tool'.todo = tool.todo \ {k}
  BY VerifyEffect DEF VerifyRow, VerifyRowFails
<1>. QED
  BY <1>1 DEF Advances

LEMMA NextAdvances == WellTyped /\ [Next]_vars => [Advances]_tool
<1>. SUFFICES ASSUME WellTyped, [Next]_vars, tool' # tool PROVE Advances
  OBVIOUS
<1>1. ~UNCHANGED vars /\ ~AppStep
  BY DEF vars, AppStep, Write, Register, DeleteObject, Unregister, Freeze
<1>2. CASE Command
  BY <1>2 DEF Command, InventoryBegin, CopyBegin, VerifyBegin, DbCheck, Begin,
              Running, Advances
<1>3. CASE InventoryEnd \/ CopyEnd \/ VerifyEnd \/ Crash
  BY <1>3, EndEffect DEF NoTool, Advances
<1>. QED
  BY <1>1, <1>2, <1>3, CopyAdvances, InventoryAdvances, VerifyAdvances
     DEF Next, ToolStep

\* Every command ends: its steps go down in an order that is well-founded as
\* long as the keys are finitely many.
THEOREM Advancing == Spec => CommandsAdvance
<1>1. Spec => []WellTyped
  BY InitWellTyped, NextWellTyped, PTL DEF Spec
<1>. QED
  BY <1>1, NextAdvances, PTL DEF Spec, CommandsAdvance
=============================================================================
