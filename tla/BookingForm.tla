----------------------------- MODULE BookingForm -----------------------------
(* What a business asks whoever books with it: the steps of its default workflow and
   their fields. Owners edit steps and fields one by one, adopt a preset, and flip the
   switch that asks for the vehicle, which reads the form, works out what to add and
   remove, and commits. Nothing here takes a lock. *)
EXTENDS Naturals, FiniteSets

CONSTANTS Steps, MaxCopies, MaxFields, None

Keys == {"registration", "make"}        \* the switch's fields; the model goes as the make
\* copy tells the fields of one key apart. A "question" is a field that no key binds.
Field == [key : Keys \union {"question"}, copy : 1..MaxCopies, step : Steps]

\* steps: the sections there are, and whether each is active. fields: the rows. task: a
\* save of the switch, with the form it has read and the keys to ask. done: that save,
\* just committed; current: nobody had edited the form meanwhile.
VARIABLES steps, fields, task, done

formVars == <<steps, fields, task, done>>
form == [steps |-> steps, fields |-> fields]

Init == steps = [s \in Steps |-> None] /\ fields = {} /\ task = None /\ done = None

\* _default_fields: a key's fields, in active sections or not.
Bound(v, key) == {f \in v.fields : f.key = key}
\* get_vehicle_details; resolve_fields shows the same fields to the customer.
Asked(v) == {k \in Keys : \E f \in Bound(v, k) : v.steps[f.step]}

NewField(key, s) ==
    LET free == {n \in 1..MaxCopies : \A f \in Bound(form, key) : f.copy # n} IN
    [key |-> key, copy |-> CHOOSE n \in free : \A m \in free : n <= m, step |-> s]
HasRoom(keys) == /\ \A key \in keys : Cardinality(Bound(form, key)) < MaxCopies
                 /\ Cardinality(fields) + Cardinality(keys) <= MaxFields
There == {s \in Steps : steps[s] # None}
Edits == done' = None /\ UNCHANGED task

-----------------------------------------------------------------------------
\* BookingFlowSectionList.post, BookingFlowSectionResource.patch and .delete
AddStep(s) == s \notin There /\ steps' = [steps EXCEPT ![s] = TRUE] /\ Edits /\ UNCHANGED fields
PatchStep(s) == s \in There /\ steps' = [steps EXCEPT ![s] = ~@] /\ Edits /\ UNCHANGED fields
DeleteStep(s) ==
    /\ s \in There /\ steps' = [steps EXCEPT ![s] = None]
    /\ fields' = {f \in fields : f.step # s}
    /\ Edits

\* BookingFlowFieldList.post and BookingFlowFieldResource.delete
AddField(key, s) ==
    /\ s \in There /\ HasRoom({key})
    /\ fields' = fields \union {NewField(key, s)}
    /\ Edits /\ UNCHANGED steps
DeleteField(f) == fields' = fields \ {f} /\ Edits /\ UNCHANGED steps

\* BookingFlowPresets.post: a first form for a business that has none.
Preset(s) ==
    /\ There = {} /\ steps' = [steps EXCEPT ![s] = TRUE]
    /\ fields' = {NewField("registration", s), NewField("question", s)}
    /\ Edits

-----------------------------------------------------------------------------
\* update_vehicle_details reads the form; the make is asked with the registration only.
Switch(wanted) ==
    /\ task = None
    /\ "make" \in wanted => "registration" \in wanted
    /\ task' = [view |-> form, wanted |-> wanted]
    /\ done' = None /\ UNCHANGED <<steps, fields>>

\* Mutation of Emptied: a step that lost a vehicle field is taken to be empty.
EmptiedAny(touched, left) == touched

\* A step that asks nothing any more is removed.
Emptied(touched, left) == {s \in touched : \A f \in left : f.step # s}

\* It commits. The first field of a key is removed, or its step is made active; a key that
\* had none gets one at home, beside another vehicle field or in a step of its own. A row
\* that went meanwhile fails the commit.
Save(first, home) ==
    LET wanted == task.wanted
        had == {f.key : f \in first}
        off == {f \in first : f.key \notin wanted}
        new == {NewField(k, home) : k \in wanted \ had}
        left == (fields \ off) \union new
        gone == Emptied({f.step : f \in off}, left)
        woken == {f.step : f \in first \ off}
                   \union (IF new # {} /\ home \notin There THEN {home} ELSE {}) IN
    /\ task # None
    /\ had = {k \in Keys : Bound(task.view, k) # {}} /\ Cardinality(first) = Cardinality(had)
    /\ HasRoom(wanted \ had)
    /\ IF first = {} THEN wanted # {} => home \notin There ELSE \E f \in first : f.step = home
    /\ IF first \subseteq fields
       THEN /\ fields' = {f \in left : f.step \notin gone}
            /\ steps' = [s \in Steps |-> CASE s \in gone -> None
                                           [] s \in woken \ gone -> TRUE
                                           [] OTHER -> steps[s]]
            /\ done' = [view |-> task.view, wanted |-> wanted, current |-> task.view = form]
       ELSE done' = None /\ UNCHANGED <<steps, fields>>
    /\ task' = None

Next == \/ \E s \in Steps : \/ AddStep(s) \/ PatchStep(s) \/ DeleteStep(s) \/ Preset(s)
                            \/ \E key \in Keys \union {"question"} : AddField(key, s)
        \/ \E f \in fields : DeleteField(f)
        \/ \E wanted \in SUBSET Keys : Switch(wanted)
        \/ task # None /\ \E first \in SUBSET task.view.fields, home \in Steps : Save(first, home)

Spec == Init /\ [][Next]_formVars

-----------------------------------------------------------------------------
\* Saving the switch makes the form ask exactly what was wanted of the vehicle and leaves
\* every other question alone; saving what is already asked changes nothing. This is of
\* a form that asks for no detail twice and hides none in an inactive step, and that
\* nobody edited since it was read.
Plain(v) == \A k \in Keys : Cardinality(Bound(v, k)) <= 1 /\ \A f \in Bound(v, k) : v.steps[f.step]
SwitchIsExact ==
    (done # None /\ done.current /\ Plain(done.view)) =>
        /\ Asked(form) = done.wanted
        /\ Bound(form, "question") = Bound(done.view, "question")
        /\ Asked(done.view) = done.wanted => form = done.view
=============================================================================
