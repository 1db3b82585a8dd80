----------------------------- MODULE BulkImport -----------------------------
(* Importing a price list and a diary. An import runs under the garage lock as
   one transaction: rows are applied in order, a later row sees the earlier
   ones, and the whole is kept only if no row has an error and its warnings
   were acknowledged; a preview is the same run, rolled back. *)
EXTENDS Naturals, Sequences, SequencesExt

\* Contacts holds None; diary rows are drawn from Rows. MaxImports is a bound.
CONSTANTS Services, Slots, Names, Contacts, None, Rows, MaxImports

VARIABLES services, customers, diary, imported

importVars == <<services, customers, diary, imported>>

Customer == [name : Names, phone : Contacts, email : Contacts]
DiaryRow == [service : Services, slot : Slots, customer : Customer]
\* An appointment: the row it came from and the position of its customer.
Appointment == [service : Services, slot : Slots, who : Nat]

Init == /\ services \in SUBSET Services
        /\ customers \in {<<>>} \union {<<c>> : c \in Customer}
        /\ diary = <<>> /\ imported = <<>>

-----------------------------------------------------------------------------
\* same_person: the phone, else the e-mail, else the name.
SamePerson(row, c) ==
    IF row.phone # None THEN c.phone = row.phone
    ELSE IF row.email # None THEN c.email = row.email
    ELSE c.name = row.name

\* find_customer: the oldest with the phone, else the oldest with the e-mail.
Known(row, cs) ==
    LET having(field) == {i \in DOMAIN cs : row[field] # None /\ cs[i][field] = row[field]}
        oldest(S) == CHOOSE i \in S : \A j \in S : i <= j
    IN IF having("phone") # {} THEN oldest(having("phone"))
       ELSE IF having("email") # {} THEN oldest(having("email")) ELSE 0

Duplicate(row, db) ==
    \E i \in DOMAIN db.diary : /\ db.diary[i].service = row.service
                               /\ db.diary[i].slot = row.slot
                               /\ SamePerson(row.customer, db.customers[db.diary[i].who])

\* Mutation of ImportRow: the customer is made before the row is compared.
EagerImportRow(db, row) ==
    LET known == Known(row.customer, db.customers)
        made == IF known # 0 THEN db ELSE [db EXCEPT !.customers = Append(@, row.customer)]
    IN IF row.service \notin services THEN [db EXCEPT !.errors = TRUE]
       ELSE IF Duplicate(row, db) THEN made
       ELSE [made EXCEPT !.diary = Append(@, [service |-> row.service, slot |-> row.slot,
                                              who |-> IF known # 0 THEN known ELSE Len(made.customers)])]

\* _import_row: what one row makes of the rows before it.
ImportRow(db, row) ==
    IF row.service \notin services THEN [db EXCEPT !.errors = TRUE]
    ELSE IF Duplicate(row, db) THEN db
    ELSE LET known == Known(row.customer, db.customers)
             who == IF known # 0 THEN known ELSE Len(db.customers) + 1
         IN [db EXCEPT !.customers = IF known # 0 THEN @ ELSE Append(@, row.customer),
                       !.diary = Append(@, [service |-> row.service, slot |-> row.slot, who |-> who]),
                       !.clash = @ \/ \E i \in DOMAIN db.diary : db.diary[i].slot = row.slot]

ImportRows(rows) ==
    FoldLeft(ImportRow, [customers |-> customers, diary |-> diary, errors |-> FALSE, clash |-> FALSE], rows)

-----------------------------------------------------------------------------
\* run_import for a diary: not a dry run.
ImportDiary(rows, acknowledged) ==
    /\ Len(imported) < MaxImports
    /\ LET db == ImportRows(rows)
       IN /\ ~db.errors /\ (db.clash => acknowledged)
          /\ customers' = db.customers /\ diary' = db.diary
    /\ imported' = Append(imported, rows)
    /\ UNCHANGED services

\* import_services: existing names are left alone, a name twice is an error.
ImportServices(names) ==
    /\ IsInjective(names)
    /\ services' = services \union {names[i] : i \in DOMAIN names}
    /\ UNCHANGED <<customers, diary, imported>>

Next == \/ \E rows \in Rows, ack \in BOOLEAN : ImportDiary(rows, ack)
        \/ \E n \in 1..2 : \E names \in [1..n -> Services] : ImportServices(names)

Spec == Init /\ [][Next]_importVars

-----------------------------------------------------------------------------
TypeOK == /\ services \subseteq Services
          /\ customers \in Seq(Customer)
          /\ diary \in Seq(Appointment)
          /\ imported \in Seq(Rows)

Again == Len(imported') > Len(imported) /\ Last(imported') \in Range(imported)

\* Importing the same diary again makes no second copy of a customer, whatever
\* was imported in between; it repeats an appointment only for a row that gives
\* a phone and an e-mail, where the first run may have linked by the e-mail.
RerunMakesNoCopies ==
    [][Again => /\ customers' = customers
                /\ \A i \in DOMAIN diary' \ DOMAIN diary :
                      \E row \in Range(Last(imported')) :
                          /\ row.slot = diary'[i].slot
                          /\ None \notin {row.customer.phone, row.customer.email}]_importVars
=============================================================================
