--------------------------- MODULE CheckoutProofs ---------------------------
(* Safety of the checkout, for any keys, requests and invoices.             *)
EXTENDS Checkout, TLAPS

-----------------------------------------------------------------------------
(* How a step changes the table of requests.                                *)

LEMMA GoesReq ==
  ASSUME TypeOK, NEW q \in Requests, NEW phase \in Phase, Goes(q, phase)
  PROVE  /\ req' \in [Requests -> Request]
         /\ req'[q].phase = phase /\ req'[q].key = req[q].key
         /\ req'[q].invoice = req[q].invoice
         /\ \A r \in Requests : r # q => req'[r] = req[r]
BY DEF TypeOK, Goes, Request

LEMMA GoesWithReq ==
  ASSUME TypeOK, NEW q \in Requests, NEW phase \in Phase,
         NEW i \in Invoices \cup {None}, GoesWith(q, phase, i)
  PROVE  /\ req' \in [Requests -> Request]
         /\ req'[q].phase = phase /\ req'[q].key = req[q].key /\ req'[q].invoice = i
         /\ \A r \in Requests : r # q => req'[r] = req[r]
BY DEF TypeOK, GoesWith, Request

LEMMA EndsReq ==
  ASSUME TypeOK, NEW q \in Requests, Ends(q)
  PROVE  /\ req' \in [Requests -> Request]
         /\ req'[q].phase = "idle" /\ req'[q].key = req[q].key /\ req'[q].invoice = None
         /\ \A r \in Requests : r # q => req'[r] = req[r]
         /\ outlived' = outlived \ {q}
BY DEF TypeOK, Ends, Request, Phase

\* The phases are what they are named.
LEMMA Phases ==
  /\ Bookkeeping \subseteq Phase
  /\ {"idle", "read", "resume", "reclaim", "invoice", "save", "fail",
      "select", "update", "insert", "pay", "complete"} = Phase
  /\ Bookkeeping \cap {"idle", "read", "resume", "reclaim", "invoice", "save", "fail"} = {}
BY DEF Phase, Bookkeeping

-----------------------------------------------------------------------------
(* Types.                                                                   *)

\* A request that is about to save has an invoice.
SavesAnInvoice == \A q \in Requests : At(q, "save") => req[q].invoice # None

\* What TypeOK says of the rows, and of the requests with SavesAnInvoice.
RowsOK ==
  /\ attempt \in [Keys -> Attempt]
  /\ \A k \in Keys :
       /\ attempt[k].status \in {"provider_created", "completed"} => attempt[k].invoice # None
       /\ attempt[k].status \in {"none", "completed", "failed"}
            => attempt[k].token = None /\ attempt[k].lease = "free"

RequestsOK ==
  /\ req \in [Requests -> Request]
  /\ \A q \in Requests :
       req[q].phase \in Bookkeeping \cup {"save"} => req[q].invoice # None

\* The claim of a request that keeps the books is for its invoice.
HoldersInvoice ==
  \A q \in Requests :
    req[q].phase \in Bookkeeping /\ Holds(q) => Of(q).invoice = req[q].invoice

LEMMA TypeParts ==
  TypeOK /\ SavesAnInvoice
    <=> /\ RowsOK /\ RequestsOK
        /\ subscription \in Invoices \cup {None} /\ payments \subseteq Invoices
        /\ created \in 0 .. MaxInvoices /\ subscribed \subseteq Invoices
        /\ outlived \subseteq Requests
BY DEF TypeOK, SavesAnInvoice, RowsOK, RequestsOK, At, Bookkeeping

LEMMA TypeInit == Init => TypeOK /\ SavesAnInvoice
BY CheckoutAssumption, Phases
DEF Init, TypeOK, SavesAnInvoice, At, Attempt, NoAttempt, Request, Phase, Bookkeeping

\* A request moves on with an invoice if its new phase calls for one.
LEMMA GoesOK ==
  ASSUME TypeOK, RequestsOK, NEW q \in Requests, NEW phase \in Phase, Goes(q, phase),
         phase \in Bookkeeping \cup {"save"} => req[q].invoice # None
  PROVE  RequestsOK'
<1>1. ASSUME NEW r \in Requests, req'[r].phase \in Bookkeeping \cup {"save"}
      PROVE  req'[r].invoice # None
  <2>1. CASE r = q
    BY <1>1, <2>1, GoesReq
  <2>2. CASE r # q
    <3>1. req'[r] = req[r]
      BY <2>2, GoesReq
    <3> QED BY <1>1, <3>1 DEF RequestsOK
  <2> QED BY <2>1, <2>2
<1> QED BY <1>1, GoesReq DEF RequestsOK

LEMMA GoesWithOK ==
  ASSUME TypeOK, RequestsOK, NEW q \in Requests, NEW phase \in Phase,
         NEW i \in Invoices \cup {None}, GoesWith(q, phase, i),
         phase \in Bookkeeping \cup {"save"} => i # None
  PROVE  RequestsOK'
<1>1. ASSUME NEW r \in Requests, req'[r].phase \in Bookkeeping \cup {"save"}
      PROVE  req'[r].invoice # None
  <2>1. CASE r = q
    BY <1>1, <2>1, GoesWithReq
  <2>2. CASE r # q
    <3>1. req'[r] = req[r]
      BY <2>2, GoesWithReq
    <3> QED BY <1>1, <3>1 DEF RequestsOK
  <2> QED BY <2>1, <2>2
<1> QED BY <1>1, GoesWithReq DEF RequestsOK

LEMMA EndsOK ==
  ASSUME TypeOK, RequestsOK, NEW q \in Requests, Ends(q)
  PROVE  RequestsOK'
<1>1. ASSUME NEW r \in Requests, req'[r].phase \in Bookkeeping \cup {"save"}
      PROVE  req'[r].invoice # None
  <2>1. CASE r = q
    BY <1>1, <2>1, EndsReq, Phases
  <2>2. CASE r # q
    <3>1. req'[r] = req[r]
      BY <2>2, EndsReq, Phases
    <3> QED BY <1>1, <3>1 DEF RequestsOK
  <2> QED BY <2>1, <2>2
<1> QED BY <1>1, EndsReq, Phases DEF RequestsOK

\* A row that is written is a row.
LEMMA SetsRow ==
  ASSUME RowsOK, NEW k \in Keys, NEW row \in Attempt,
         attempt' = [attempt EXCEPT ![k] = row],
         row.status \in {"provider_created", "completed"} => row.invoice # None,
         row.status \in {"none", "completed", "failed"}
            => row.token = None /\ row.lease = "free"
  PROVE  RowsOK'
BY DEF RowsOK

LEMMA InvoicesAreNot == None \notin Invoices /\ None \notin Requests
BY CheckoutAssumption DEF Invoices

LEMMA LetGoRows ==
  ASSUME TypeOK, SavesAnInvoice, NEW q \in Requests, NEW status \in {"completed", "failed"},
         attempt' = LetGo(q, status),
         status = "completed" => Of(q).invoice # None
  PROVE  RowsOK'
<1> DEFINE k == req[q].key
           row == [attempt[k] EXCEPT !.status = status, !.token = None, !.lease = "free"]
<1>1. k \in Keys /\ attempt[k] \in Attempt
  BY DEF TypeOK, Request
<1>2. /\ row \in Attempt /\ row.status = status /\ row.invoice = attempt[k].invoice
      /\ row.token = None /\ row.lease = "free"
  BY <1>1 DEF Attempt
<1>3. attempt' = [attempt EXCEPT ![k] = row]
  BY <1>1 DEF LetGo, TypeOK
<1>4. status = "completed" => attempt[k].invoice # None
  BY DEF Of
<1> HIDE DEF row, k
<1> QED BY <1>1, <1>2, <1>3, <1>4, TypeParts, SetsRow

LEMMA SavedRows ==
  ASSUME TypeOK, SavesAnInvoice, NEW q \in Requests, At(q, "save"), attempt' = Saved(q)
  PROVE  RowsOK'
<1> DEFINE k == req[q].key
           row == [attempt[k] EXCEPT !.status = "provider_created",
                                     !.invoice = req[q].invoice, !.lease = "held"]
<1>1. k \in Keys /\ attempt[k] \in Attempt /\ req[q].invoice \in Invoices
  BY DEF TypeOK, Request, SavesAnInvoice
<1>2. /\ row \in Attempt /\ row.status = "provider_created"
      /\ row.invoice = req[q].invoice
  BY <1>1 DEF Attempt
<1>3. attempt' = [attempt EXCEPT ![k] = row]
  BY <1>1 DEF Saved, TypeOK
<1> HIDE DEF row, k
<1> QED BY <1>1, <1>2, <1>3, TypeParts, SetsRow, InvoicesAreNot

\* Only the claims and the request's own invoice need a look at what is written.
LEMMA TypeNext ==
  TypeOK /\ SavesAnInvoice /\ HoldersInvoice /\ [Next]_vars => TypeOK' /\ SavesAnInvoice'
<1> SUFFICES ASSUME TypeOK, SavesAnInvoice, HoldersInvoice, [Next]_vars
             PROVE  TypeOK' /\ SavesAnInvoice'
  OBVIOUS
<1> DEFINE RestOK == /\ subscription \in Invoices \cup {None} /\ payments \subseteq Invoices
                     /\ created \in 0 .. MaxInvoices /\ subscribed \subseteq Invoices
                     /\ outlived \subseteq Requests
<1>0. RowsOK /\ RequestsOK /\ RestOK
  BY TypeParts
<1>q. SUFFICES RowsOK' /\ RequestsOK' /\ RestOK'
  BY DEF TypeOK, SavesAnInvoice, RowsOK, RequestsOK, At, Bookkeeping
<1>s. ASSUME UNCHANGED attempt PROVE RowsOK'
  BY <1>0, <1>s DEF RowsOK
<1>1. ASSUME NEW q \in Requests, NEW k \in Keys, Claim(q, k)
      PROVE  RowsOK' /\ RequestsOK' /\ RestOK'
  <2>1. RestOK'
    BY <1>1, <1>0 DEF Claim
  <2>2. RequestsOK'
    BY <1>1, <1>0, Phases DEF Claim, RequestsOK, Request
  <2>3. RowsOK'
    <3> DEFINE row == [attempt[k] EXCEPT !.status = "pending", !.token = q, !.lease = "held"]
    <3>1. CASE attempt' = [attempt EXCEPT ![k] = row]
      <4>1. row \in Attempt /\ row.status = "pending"
        BY <1>0 DEF RowsOK, Attempt
      <4> HIDE DEF row
      <4> QED BY <3>1, <4>1, <1>0, SetsRow
    <3>2. attempt' = [attempt EXCEPT ![k] = row] \/ UNCHANGED attempt
      BY <1>1, <1>0 DEF Claim, RowsOK
    <3> QED BY <3>1, <3>2, <1>s
  <2> QED BY <2>1, <2>2, <2>3
<1>2. ASSUME NEW q \in Requests, Read(q) PROVE RowsOK' /\ RequestsOK' /\ RestOK'
  <2>1. RestOK' /\ RowsOK'
    BY <1>2, <1>0, <1>s, EndsReq DEF Read, rows
  <2>2. /\ "resume" \in Phase \ (Bookkeeping \cup {"save"})
        /\ "reclaim" \in Phase \ (Bookkeeping \cup {"save"})
    BY Phases
  <2>3. Goes(q, "resume") \/ Goes(q, "reclaim") \/ Ends(q)
    BY <1>2 DEF Read
  <2>4. RequestsOK'
    BY <1>0, <2>2, <2>3, GoesOK, EndsOK
  <2> QED BY <2>1, <2>4
<1>3. ASSUME NEW q \in Requests, Resume(q) PROVE RowsOK' /\ RequestsOK' /\ RestOK'
  <2> DEFINE k == req[q].key
             row == [attempt[k] EXCEPT !.token = q, !.lease = "held"]
  <2>1. k \in Keys /\ Of(q) = attempt[k] /\ attempt[k] \in Attempt
    BY <1>0 DEF RequestsOK, RowsOK, Request, Of
  <2>2. RestOK'
    BY <1>3, <1>0, EndsReq DEF Resume
  <2>3. CASE Resumable(q) /\ attempt' = [attempt EXCEPT ![k] = row]
             /\ GoesWith(q, "select", Of(q).invoice)
    <3>1. attempt[k].status = "provider_created" /\ attempt[k].invoice \in Invoices
      BY <1>0, <2>1, <2>3 DEF Resumable, RowsOK, Attempt
    <3>2. row \in Attempt /\ row.status = "provider_created" /\ row.invoice # None
      BY <2>1, <3>1, InvoicesAreNot DEF Attempt
    <3>3. RequestsOK'
      <4>1. "select" \in Phase /\ Of(q).invoice \in Invoices /\ Of(q).invoice # None
        BY <2>1, <3>1, Phases, InvoicesAreNot
      <4> QED BY <1>0, <2>3, <4>1, GoesWithOK
    <3> HIDE DEF row, k
    <3> QED BY <2>1, <2>2, <2>3, <3>2, <3>3, <1>0, SetsRow
  <2>4. CASE Ends(q) /\ UNCHANGED attempt
    BY <2>2, <2>4, <1>0, <1>s, EndsOK
  <2> QED BY <1>3, <1>0, <2>1, <2>3, <2>4 DEF Resume, RowsOK
<1>4. ASSUME NEW q \in Requests, Reclaim(q) PROVE RowsOK' /\ RequestsOK' /\ RestOK'
  <2> DEFINE k == req[q].key
             row == [attempt[k] EXCEPT !.status = "pending", !.token = q, !.lease = "held"]
             phase == IF Of(q).invoice = None THEN "invoice" ELSE "select"
  <2>1. k \in Keys /\ Of(q) = attempt[k] /\ attempt[k] \in Attempt
    BY <1>0 DEF RequestsOK, RowsOK, Request, Of
  <2>2. RestOK'
    BY <1>4, <1>0, EndsReq DEF Reclaim
  <2>3. CASE attempt' = [attempt EXCEPT ![k] = row] /\ GoesWith(q, phase, Of(q).invoice)
    <3>1. Of(q).invoice \in Invoices \cup {None} /\ phase \in Phase
      BY <2>1, Phases DEF Attempt
    <3>2. row \in Attempt /\ row.status = "pending"
      BY <2>1 DEF Attempt
    <3>3. phase \in Bookkeeping \cup {"save"} => Of(q).invoice # None
      BY Phases
    <3> HIDE DEF row, k, phase
    <3>4. RequestsOK'
      BY <1>0, <2>3, <3>1, <3>3, GoesWithOK
    <3> QED BY <2>1, <2>2, <2>3, <3>2, <3>4, <1>0, SetsRow
  <2>4. CASE Ends(q) /\ UNCHANGED attempt
    BY <2>2, <2>4, <1>0, <1>s, EndsOK
  <2> QED BY <1>4, <1>0, <2>1, <2>3, <2>4 DEF Reclaim, RowsOK
<1>5. ASSUME NEW q \in Requests, CreateInvoice(q) PROVE RowsOK' /\ RequestsOK' /\ RestOK'
  <2>1. created' \in Invoices
    BY <1>5, <1>0, CheckoutAssumption DEF CreateInvoice, Invoices
  <2>2. RequestsOK'
    <3>1. "save" \in Phase /\ created' # None /\ GoesWith(q, "save", created')
      BY <1>5, <2>1, Phases, InvoicesAreNot DEF CreateInvoice
    <3> QED BY <1>0, <2>1, <3>1, GoesWithOK
  <2> QED BY <1>5, <1>0, <2>1, <2>2, <1>s, CheckoutAssumption
          DEF CreateInvoice, rows, Invoices
<1>6. ASSUME NEW q \in Requests, CreateErrs(q) PROVE RowsOK' /\ RequestsOK' /\ RestOK'
  <2>1. RequestsOK'
    <3>1. Goes(q, "fail") /\ "fail" \in Phase \ (Bookkeeping \cup {"save"})
      BY <1>6, Phases DEF CreateErrs
    <3> QED BY <1>0, <3>1, GoesOK
  <2> QED BY <1>6, <1>0, <2>1, <1>s DEF CreateErrs, rows, Invoices
<1>7. ASSUME NEW q \in Requests, Save(q) \/ SaveErrs(q)
      PROVE  RowsOK' /\ RequestsOK' /\ RestOK'
  <2>1. RequestsOK'
    <3>1. req[q].invoice # None
      BY <1>7 DEF Save, SaveErrs, SavesAnInvoice
    <3>2. \E phase \in {"select", "fail"} : Goes(q, phase)
      BY <1>7 DEF Save, SaveErrs
    <3> QED BY <1>0, <3>1, <3>2, Phases, GoesOK
  <2>2. At(q, "save") /\ (attempt' = Saved(q) \/ UNCHANGED attempt)
    BY <1>7 DEF Save, SaveErrs
  <2>3. RowsOK'
    BY <2>2, <1>s, SavedRows
  <2> QED BY <1>7, <1>0, <2>1, <2>3 DEF Save, SaveErrs
<1>8. ASSUME NEW q \in Requests,
             Select(q) \/ Update(q) \/ Insert(q) \/ SubscribeErrs(q) \/ Pay(q) \/ PayErrs(q)
      PROVE  RowsOK' /\ RequestsOK' /\ RestOK'
  <2>1. req[q].phase \in Bookkeeping /\ req[q].invoice \in Invoices
    BY <1>8, <1>0, InvoicesAreNot
    DEF Select, Update, Insert, SubscribeErrs, Pay, PayErrs, At, RequestsOK, Request, Bookkeeping
  <2>2. \E phase \in Bookkeeping \cup {"fail"} : Goes(q, phase)
    BY <1>8 DEF Select, Update, Insert, SubscribeErrs, Pay, PayErrs, Bookkeeping
  <2>3. RequestsOK'
    BY <1>0, <2>1, <2>2, Phases, GoesOK, InvoicesAreNot
  <2>4. RestOK'
    BY <1>8, <1>0, <2>1
    DEF Select, Update, Insert, SubscribeErrs, Pay, PayErrs, Subscribes, rows
  <2> QED BY <1>8, <1>s, <2>3, <2>4
          DEF Select, Update, Insert, SubscribeErrs, Pay, PayErrs, rows
<1>9. ASSUME NEW q \in Requests, Complete(q) \/ CompleteErrs(q)
      PROVE  RowsOK' /\ RequestsOK' /\ RestOK'
  <2>1. RequestsOK'
    <3>1. "fail" \in Phase \ (Bookkeeping \cup {"save"})
      BY Phases
    <3>2. Goes(q, "fail") \/ Ends(q)
      BY <1>9 DEF Complete, CompleteErrs
    <3> QED BY <1>0, <3>1, <3>2, GoesOK, EndsOK
  <2>2. Holds(q) => Of(q).invoice # None
    BY <1>9, <1>0 DEF Complete, CompleteErrs, At, HoldersInvoice, RequestsOK, Bookkeeping
  <2>3. (Holds(q) /\ attempt' = LetGo(q, "completed")) \/ UNCHANGED attempt
    BY <1>9 DEF Complete, CompleteErrs
  <2>4. RowsOK'
    BY <1>s, <2>2, <2>3, LetGoRows
  <2> QED BY <1>9, <1>0, <2>1, <2>4, EndsReq DEF Complete, CompleteErrs
<1>10. ASSUME NEW q \in Requests, Fail(q) \/ Dies(q)
       PROVE  RowsOK' /\ RequestsOK' /\ RestOK'
  <2>1. Ends(q)
    BY <1>10 DEF Fail, Dies
  <2>2. RequestsOK' /\ outlived' \subseteq Requests
    BY <1>0, <2>1, EndsOK, EndsReq
  <2>3. attempt' = LetGo(q, "failed") \/ UNCHANGED attempt
    BY <1>10 DEF Fail, Dies, rows
  <2> QED BY <1>10, <1>0, <1>s, <2>2, <2>3, LetGoRows DEF Fail, Dies, rows
<1>11. ASSUME NEW k \in Keys, LeaseExpires(k) PROVE RowsOK' /\ RequestsOK' /\ RestOK'
  <2>1. RequestsOK' /\ RestOK'
    BY <1>11, <1>0 DEF LeaseExpires, RequestsOK
  <2>2. RowsOK'
    BY <1>11, <1>0 DEF LeaseExpires, RowsOK, Attempt
  <2> QED BY <2>1, <2>2
<1>12. CASE UNCHANGED vars
  BY <1>12, <1>0, <1>s DEF vars, rows, RequestsOK
<1> QED
  BY <1>1, <1>2, <1>3, <1>4, <1>5, <1>6, <1>7, <1>8, <1>9, <1>10, <1>11, <1>12
  DEF Next, RequestStep

-----------------------------------------------------------------------------
(* Who changes what.                                                        *)

\* A step of a request moves no other, and no bookkeeping is undone.
LEMMA MovesOne ==
  ASSUME TypeOK, NEW q \in Requests, RequestStep(q)
  PROVE  /\ \A r \in Requests : r # q => req'[r] = req[r]
         /\ outlived' = outlived \/ outlived' = outlived \ {q}
         /\ subscribed \subseteq subscribed' /\ payments \subseteq payments'
BY DEF RequestStep, Claim, Read, Resume, Reclaim, CreateInvoice, CreateErrs, Save, SaveErrs,
       Select, Update, Insert, SubscribeErrs, Pay, PayErrs, Complete, CompleteErrs, Fail, Dies,
       Goes, GoesWith, Ends, Subscribes, rows, TypeOK

\* What a request writes into the rows.
LEMMA WritesRow ==
  ASSUME TypeOK, NEW q \in Requests, RequestStep(q), NEW k \in Keys,
         attempt'[k] # attempt[k]
  PROVE  \/ Claim(q, k) /\ attempt[k].status = "none"
            /\ attempt'[k] = [attempt[k] EXCEPT !.status = "pending", !.token = q,
                                               !.lease = "held"]
         \/ req[q].key = k /\ Resume(q) /\ Resumable(q)
         \/ req[q].key = k /\ Reclaim(q) /\ attempt[k].status = "failed"
         \/ req[q].key = k /\ Holds(q) /\ At(q, "save") /\ attempt' = Saved(q)
         \/ req[q].key = k /\ Holds(q) /\ At(q, "complete") /\ attempt' = LetGo(q, "completed")
         \/ req[q].key = k /\ Holds(q) /\ At(q, "fail") /\ attempt' = LetGo(q, "failed")
<1>1. CASE \E j \in Keys : Claim(q, j)
  BY <1>1 DEF Claim, TypeOK
<1>2. CASE Resume(q)
  BY <1>2 DEF Resume, TypeOK
<1>3. CASE Reclaim(q)
  BY <1>3 DEF Reclaim, Of, TypeOK
<1>4. CASE Save(q) \/ SaveErrs(q)
  BY <1>4 DEF Save, SaveErrs, Saved, TypeOK
<1>5. CASE Complete(q) \/ CompleteErrs(q) \/ Fail(q)
  BY <1>5 DEF Complete, CompleteErrs, Fail, LetGo, TypeOK
<1> QED
  BY <1>1, <1>2, <1>3, <1>4, <1>5
  DEF RequestStep, Read, CreateInvoice, CreateErrs, Select, Update, Insert, SubscribeErrs,
      Pay, PayErrs, Dies, rows

\* The row after a write: a request leaves its own token in it, or none.
LEMMA WrittenRow ==
  ASSUME TypeOK, NEW q \in Requests, RequestStep(q), NEW k \in Keys,
         attempt'[k] # attempt[k]
  PROVE  attempt'[k].token \in {q, None}
<1>1. attempt \in [Keys -> Attempt] /\ attempt[k] \in Attempt
  BY DEF TypeOK
<1>2. CASE req[q].key = k /\ Resume(q) /\ Resumable(q)
  BY <1>1, <1>2 DEF Resume, Attempt
<1>3. CASE req[q].key = k /\ Reclaim(q) /\ attempt[k].status = "failed"
  BY <1>1, <1>3 DEF Reclaim, Attempt, Of
<1>4. CASE req[q].key = k /\ Holds(q) /\ attempt' = Saved(q)
  BY <1>1, <1>4 DEF Saved, Attempt, Holds, Of
<1>5. CASE req[q].key = k /\ \E status \in {"completed", "failed"} : attempt' = LetGo(q, status)
  BY <1>1, <1>5 DEF LetGo, Attempt
<1>6. CASE attempt'[k] = [attempt[k] EXCEPT !.status = "pending", !.token = q, !.lease = "held"]
  BY <1>1, <1>6 DEF Attempt
<1> QED BY <1>2, <1>3, <1>4, <1>5, <1>6, WritesRow

\* A row that another request holds is not written, unless its lease ran out.
LEMMA HeldRowStays ==
  ASSUME TypeOK, NEW q \in Requests, RequestStep(q), NEW k \in Keys,
         attempt[k].token # q, attempt[k].lease = "held",
         attempt[k].status \in {"pending", "provider_created"}
  PROVE  attempt'[k] = attempt[k]
BY WritesRow DEF Resumable, Holds, Of

-----------------------------------------------------------------------------
(* The bookkeeping of a request.                                            *)

\* What a request that keeps the books has behind it, and what its claim says
\* while its lease lasts.
HasWritten(q) ==
  /\ req[q].phase \in {"pay", "complete"} => req[q].invoice \in subscribed
  /\ At(q, "complete") => req[q].invoice \in payments

HasLease(q) ==
  req[q].phase \in Bookkeeping /\ q \notin outlived =>
    /\ Holds(q) /\ Of(q).lease = "held"
    /\ Of(q).status \in {"pending", "provider_created"}

KeepsBooks ==
  /\ HoldersInvoice
  /\ \A q \in Requests : HasWritten(q) /\ HasLease(q)

HoldsItsInvoice(q) ==
  req[q].phase \in Bookkeeping /\ Holds(q) => Of(q).invoice = req[q].invoice

\* A request takes up the bookkeeping with the claim it has just written.
LEMMA TakesUp ==
  ASSUME TypeOK, NEW q \in Requests,
         (Resume(q) /\ Resumable(q)) \/ (Reclaim(q) /\ Of(q).status = "failed")
           \/ (Save(q) /\ Holds(q))
  PROVE  HoldsItsInvoice(q)' /\ HasWritten(q)' /\ HasLease(q)'
<1> DEFINE k == req[q].key
<1>1. attempt \in [Keys -> Attempt] /\ k \in Keys /\ attempt[k] \in Attempt
  BY DEF TypeOK, Request
<1>2. req'[q].key = k /\ ~ req'[q].phase \in {"pay", "complete"}
  <2>1. CASE Save(q)
    BY <2>1, GoesReq, Phases DEF Save
  <2>2. CASE Resume(q) \/ Reclaim(q)
    BY <2>2, EndsReq DEF TypeOK, Resume, Reclaim, GoesWith, Request
  <2> QED BY <2>1, <2>2
<1>3. /\ attempt'[k].token = q /\ attempt'[k].lease = "held"
      /\ attempt'[k].status \in {"pending", "provider_created"}
      /\ attempt'[k].invoice = req'[q].invoice
  <2>1. CASE Resume(q) /\ Resumable(q)
    <3>1. /\ attempt'[k] = [attempt[k] EXCEPT !.token = q, !.lease = "held"]
          /\ attempt[k].status = "provider_created"
      BY <1>1, <2>1 DEF Resume, Resumable, Of
    <3>2. req'[q].invoice = attempt[k].invoice
      <4>1. GoesWith(q, "select", attempt[k].invoice)
        BY <2>1 DEF Resume, Of
      <4> QED BY <1>1, <4>1, Phases, GoesWithReq DEF Attempt
    <3> QED BY <1>1, <3>1, <3>2 DEF Attempt
  <2>2. CASE Reclaim(q) /\ Of(q).status = "failed"
    <3>1. attempt'[k] = [attempt[k] EXCEPT !.status = "pending", !.token = q, !.lease = "held"]
      BY <1>1, <2>2 DEF Reclaim, Of
    <3>2. req'[q].invoice = attempt[k].invoice
      <4>1. \E phase \in {"invoice", "select"} : GoesWith(q, phase, attempt[k].invoice)
        BY <2>2 DEF Reclaim, Of
      <4> QED BY <1>1, <4>1, Phases, GoesWithReq DEF Attempt
    <3> QED BY <1>1, <3>1, <3>2 DEF Attempt
  <2>3. CASE Save(q) /\ Holds(q)
    <3>1. attempt'[k] = [attempt[k] EXCEPT !.status = "provider_created",
                                           !.invoice = req[q].invoice, !.lease = "held"]
      BY <1>1, <2>3 DEF Save, Saved
    <3>2. attempt[k].token = q
      BY <2>3 DEF Holds, Of
    <3>3. req'[q].invoice = req[q].invoice
      <4>1. Goes(q, "select")
        BY <2>3 DEF Save
      <4> QED BY <4>1, Phases, GoesReq
    <3> QED BY <1>1, <3>1, <3>2, <3>3 DEF Attempt
  <2> QED BY <2>1, <2>2, <2>3
<1>4. HasWritten(q)'
  BY <1>2 DEF HasWritten, At
<1>5. HoldsItsInvoice(q)' /\ HasLease(q)'
  BY <1>2, <1>3 DEF HoldsItsInvoice, HasLease, Holds, Of
<1> QED BY <1>4, <1>5

\* It goes on with it, and the claim stays as it is.
LEMMA GoesOn ==
  ASSUME TypeOK, KeepsBooks, NEW q \in Requests,
         Select(q) \/ Update(q) \/ Insert(q) \/ Pay(q), ~ At(q, "fail")'
  PROVE  HoldsItsInvoice(q)' /\ HasWritten(q)' /\ HasLease(q)'
<1>1. req[q].phase \in Bookkeeping /\ UNCHANGED <<attempt, outlived>>
  BY DEF Select, Update, Insert, Pay, At, Bookkeeping, rows
<1>2. \E phase \in Phase : Goes(q, phase)
  BY Phases DEF Select, Update, Insert, Pay
<1>3. req'[q].key = req[q].key /\ req'[q].invoice = req[q].invoice
  BY <1>2, GoesReq
<1>4. HoldsItsInvoice(q)' /\ HasLease(q)'
  BY <1>1, <1>3 DEF KeepsBooks, HoldersInvoice, HoldsItsInvoice, HasLease, Holds, Of
<1>5. HasWritten(q)'
  <2>1. CASE Select(q)
    BY <2>1, Phases, GoesReq DEF Select, HasWritten, At
  <2>2. CASE Update(q) \/ Insert(q)
    <3>1. Goes(q, "pay") /\ "pay" \in Phase /\ subscribed' = subscribed \cup {req[q].invoice}
      <4>1. "fail" \in Phase
        BY Phases
      <4> QED BY <2>2, <4>1, Phases, GoesReq DEF Update, Insert, Subscribes, At
    <3> QED BY <1>3, <3>1, GoesReq DEF HasWritten, At
  <2>3. CASE Pay(q)
    <3>1. req[q].invoice \in subscribed
      BY <2>3 DEF Pay, KeepsBooks, HasWritten, At
    <3> QED BY <1>3, <2>3, <3>1 DEF Pay, HasWritten
  <2> QED BY <2>1, <2>2, <2>3
<1> QED BY <1>4, <1>5

\* Any other step of it leaves the bookkeeping.
LEMMA OwnStep ==
  ASSUME TypeOK, KeepsBooks, NEW q \in Requests, RequestStep(q)
  PROVE  HoldsItsInvoice(q)' /\ HasWritten(q)' /\ HasLease(q)'
<1>1. CASE req'[q].phase \notin Bookkeeping
  BY <1>1 DEF HoldsItsInvoice, HasWritten, HasLease, At, Bookkeeping
<1>2. CASE req'[q].phase \in Bookkeeping
  <2>1. /\ ~ At(q, "fail")'
        /\ \A phase \in Phase \ Bookkeeping : ~ Goes(q, phase)
        /\ ~ Ends(q)
    BY <1>2, Phases, GoesReq, EndsReq DEF At
  <2>2. /\ "fail" \in Phase \ Bookkeeping /\ "resume" \in Phase \ Bookkeeping
        /\ "reclaim" \in Phase \ Bookkeeping
    BY Phases
  <2>3. ~ \E k \in Keys : Claim(q, k)
    <3>1. ASSUME NEW k \in Keys, Claim(q, k) PROVE req'[q].phase \in {"invoice", "read"}
      BY <3>1 DEF Claim, TypeOK
    <3> QED BY <1>2, <3>1, Phases
  <2>4. ~ CreateInvoice(q)
    <3>1. SUFFICES ASSUME CreateInvoice(q) PROVE FALSE
      OBVIOUS
    <3>2. req' = [req EXCEPT ![q].phase = "save", ![q].invoice = created']
      BY <3>1 DEF CreateInvoice, GoesWith
    <3>3. req'[q].phase = "save"
      BY <3>2 DEF TypeOK, Request
    <3> QED BY <1>2, <3>3, Phases
  <2>5. ~ (Read(q) \/ CreateErrs(q) \/ SaveErrs(q) \/ SubscribeErrs(q) \/ PayErrs(q)
            \/ Complete(q) \/ CompleteErrs(q) \/ Fail(q) \/ Dies(q))
    BY <2>1, <2>2
    DEF Read, CreateErrs, SaveErrs, SubscribeErrs, PayErrs, Complete, CompleteErrs, Fail, Dies
  <2>6. CASE Resume(q) \/ Reclaim(q) \/ Save(q)
    BY <2>1, <2>2, <2>6, TakesUp DEF Resume, Reclaim, Save
  <2>7. CASE Select(q) \/ Update(q) \/ Insert(q) \/ Pay(q)
    BY <2>1, <2>7, GoesOn
  <2> QED BY <2>3, <2>4, <2>5, <2>6, <2>7 DEF RequestStep
<1> QED BY <1>1, <1>2

\* The others do not touch its claim.
LEMMA OtherStep ==
  ASSUME TypeOK, KeepsBooks, NEW q \in Requests, RequestStep(q),
         NEW r \in Requests, r # q
  PROVE  HoldsItsInvoice(r)' /\ HasWritten(r)' /\ HasLease(r)'
<1> DEFINE k == req[r].key
<1>1. k \in Keys /\ req'[r] = req[r] /\ HasWritten(r) /\ HasLease(r) /\ HoldsItsInvoice(r)
  BY MovesOne DEF TypeOK, Request, KeepsBooks, HoldersInvoice, HoldsItsInvoice
<1>2. HasWritten(r)'
  BY <1>1, MovesOne DEF HasWritten, At
<1>3. HasLease(r)'
  <2>1. SUFFICES ASSUME req[r].phase \in Bookkeeping, r \notin outlived'
                 PROVE  attempt'[k] = attempt[k] /\ r \notin outlived
    BY <1>1 DEF HasLease, Holds, Of
  <2>2. r \notin outlived
    BY <2>1, MovesOne
  <2> QED BY <1>1, <2>1, <2>2, HeldRowStays DEF HasLease, Holds, Of
<1>4. HoldsItsInvoice(r)'
  <2>1. SUFFICES ASSUME attempt'[k].token = r PROVE attempt'[k] = attempt[k]
    BY <1>1 DEF HoldsItsInvoice, Holds, Of
  <2>2. attempt'[k].token \notin {q, None}
    BY <2>1, InvoicesAreNot
  <2> QED BY <1>1, <2>2, WrittenRow
<1> QED BY <1>2, <1>3, <1>4

\* A lease runs out on record.
LEMMA ExpiryStep ==
  ASSUME TypeOK, KeepsBooks, NEW k \in Keys, LeaseExpires(k), NEW r \in Requests
  PROVE  HoldsItsInvoice(r)' /\ HasWritten(r)' /\ HasLease(r)'
<1>1. req' = req /\ HasWritten(r) /\ HasLease(r) /\ HoldsItsInvoice(r)
  BY DEF LeaseExpires, KeepsBooks, HoldersInvoice, HoldsItsInvoice
<1>2. HasWritten(r)'
  BY <1>1 DEF LeaseExpires, HasWritten, At
<1>3. PICK j \in Keys : req[r].key = j
  BY DEF TypeOK, Request
<1>4. /\ attempt'[j].token = attempt[j].token
      /\ attempt'[j].status = attempt[j].status
      /\ attempt'[j].invoice = attempt[j].invoice
      /\ j # k => attempt'[j] = attempt[j]
  BY DEF LeaseExpires, TypeOK, Attempt
<1>5. HoldsItsInvoice(r)'
  BY <1>1, <1>3, <1>4 DEF HoldsItsInvoice, Holds, Of
<1>6. HasLease(r)'
  <2>1. SUFFICES ASSUME req[r].phase \in Bookkeeping, r \notin outlived'
                 PROVE  j # k /\ r \notin outlived
    BY <1>1, <1>3, <1>4 DEF HasLease, Holds, Of
  <2>2. r \notin outlived /\ ~ (r = attempt[k].token /\ WorksOn(r, k))
    BY <2>1 DEF LeaseExpires
  <2> QED BY <1>1, <1>3, <2>1, <2>2 DEF HasLease, Holds, Of, WorksOn
<1> QED BY <1>2, <1>5, <1>6

LEMMA BooksNext == TypeOK /\ KeepsBooks /\ [Next]_vars => KeepsBooks'
<1> SUFFICES ASSUME TypeOK, KeepsBooks, [Next]_vars PROVE KeepsBooks'
  OBVIOUS
<1>1. CASE \E q \in Requests : RequestStep(q)
  BY <1>1, OwnStep, OtherStep DEF KeepsBooks, HoldersInvoice, HoldsItsInvoice
<1>2. CASE \E k \in Keys : LeaseExpires(k)
  BY <1>2, ExpiryStep DEF KeepsBooks, HoldersInvoice, HoldsItsInvoice
<1>3. CASE UNCHANGED vars
  BY <1>3 DEF vars, rows, KeepsBooks, HoldersInvoice, HasWritten, HasLease, Holds, Of, At
<1> QED BY <1>1, <1>2, <1>3 DEF Next

LEMMA BooksInit == Init => KeepsBooks
BY DEF Init, KeepsBooks, HoldersInvoice, HasWritten, HasLease, At, Bookkeeping

-----------------------------------------------------------------------------
(* The theorems.                                                            *)

\* The variables keep their types, and the rows what their status says of them.
THEOREM TypeCorrect == Spec => []TypeOK
<1>1. KeepsBooks => HoldersInvoice
  BY DEF KeepsBooks
<1> QED BY <1>1, TypeInit, TypeNext, BooksInit, BooksNext, PTL DEF Spec

\* Two requests write for one key at once only if the lease of one ran out under it.
THEOREM Exclusion == Spec => []OneBookkeeper
<1>1. TypeOK /\ KeepsBooks => OneBookkeeper
  BY DEF KeepsBooks, HasLease, OneBookkeeper, WorksOn, Holds, Of
<1>2. KeepsBooks => HoldersInvoice
  BY DEF KeepsBooks
<1> QED BY <1>1, <1>2, TypeInit, TypeNext, BooksInit, BooksNext, PTL DEF Spec

\* A completed row stays completed, with its invoice; it is completed by the request
\* that holds it, for the invoice it has booked.
LEMMA CompletedNext ==
  TypeOK /\ KeepsBooks /\ CompletedIsBooked /\ [Next]_vars => CompletedIsBooked'
<1> SUFFICES ASSUME TypeOK, KeepsBooks, CompletedIsBooked, [Next]_vars,
                    NEW k \in Keys, attempt'[k].status = "completed"
             PROVE  attempt'[k].invoice \in payments' \cap subscribed'
  BY DEF CompletedIsBooked
<1>1. attempt \in [Keys -> Attempt] /\ attempt[k] \in Attempt
  BY DEF TypeOK
<1>2. payments \subseteq payments' /\ subscribed \subseteq subscribed'
  BY MovesOne DEF Next, LeaseExpires, vars, rows
<1>3. CASE attempt'[k] = attempt[k]
  BY <1>2, <1>3 DEF CompletedIsBooked
<1>4. ASSUME NEW q \in Requests, RequestStep(q), attempt'[k] # attempt[k]
      PROVE  attempt'[k].invoice \in payments' \cap subscribed'
  <2>1. CASE req[q].key = k /\ Holds(q) /\ At(q, "complete") /\ attempt' = LetGo(q, "completed")
    <3>1. attempt'[k].invoice = attempt[k].invoice
      BY <1>1, <2>1 DEF LetGo, Attempt
    <3>2. attempt[k].invoice \in payments \cap subscribed
      BY <2>1 DEF KeepsBooks, HoldersInvoice, HasWritten, Of, At, Bookkeeping
    <3> QED BY <1>2, <3>1, <3>2
  <2>2. CASE req[q].key = k /\ Resume(q) /\ Resumable(q)
    <3>1. attempt[k].status = "provider_created"
      BY <2>2 DEF Resumable, Of
    <3>2. attempt'[k] = [attempt[k] EXCEPT !.token = q, !.lease = "held"]
      BY <1>1, <2>2 DEF Resume
    <3> QED BY <1>1, <3>1, <3>2 DEF Attempt
  <2>3. CASE req[q].key = k /\ Reclaim(q) /\ attempt[k].status = "failed"
    BY <1>1, <2>3 DEF Reclaim, Of, Attempt
  <2>4. CASE req[q].key = k /\ attempt' = Saved(q)
    BY <1>1, <2>4 DEF Saved, Attempt
  <2>5. CASE req[q].key = k /\ attempt' = LetGo(q, "failed")
    BY <1>1, <2>5 DEF LetGo, Attempt
  <2>6. CASE attempt'[k] = [attempt[k] EXCEPT !.status = "pending", !.token = q, !.lease = "held"]
    BY <1>1, <2>6 DEF Attempt
  <2> QED BY <1>4, <2>1, <2>2, <2>3, <2>4, <2>5, <2>6, WritesRow
<1>5. CASE \E j \in Keys : LeaseExpires(j)
  <2>1. attempt'[k].status = attempt[k].status /\ attempt'[k].invoice = attempt[k].invoice
    BY <1>1, <1>5 DEF LeaseExpires, Attempt
  <2> QED BY <1>2, <2>1 DEF CompletedIsBooked
<1> QED BY <1>3, <1>4, <1>5 DEF Next, vars, rows

\* A completed attempt has its subscription and its payment row.
THEOREM Completeness == Spec => []CompletedIsBooked
<1>1. Init => CompletedIsBooked
  BY DEF Init, CompletedIsBooked, NoAttempt
<1>2. KeepsBooks => HoldersInvoice
  BY DEF KeepsBooks
<1> QED BY <1>1, <1>2, TypeInit, TypeNext, BooksInit, BooksNext, CompletedNext, PTL DEF Spec
=============================================================================
