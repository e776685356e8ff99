------------------------------- MODULE Classes -------------------------------
(***************************************************************************)
(* How compiler::ScriptCompiler declares the classes of a script, and how  *)
(* ClassImpl builds the table of virtual members of each.                  *)
(*                                                                         *)
(* Declarations are processed in their order.  A class is made before its  *)
(* content is read, with the table its base has by then.  A function whose *)
(* type names a class that is not declared yet is put aside until all is   *)
(* read, and the data members are added after that.  A derived class may   *)
(* so be complete before its base is: update_vtable makes up for it.       *)
(*                                                                         *)
(* A class, or a function, is its position in `classes' or `functions'.    *)
(***************************************************************************)
EXTENDS Integers, Sequences, FiniteSets, SequencesExt

CONSTANTS
  Sources       \* the scripts: sequences of class declarations

VARIABLES
  script,                           \* one of Sources
  item,                             \* what to read next: <<class, member>>
  classes,                          \* TypeSystemImpl.classes, those of the script
  functions,                        \* the member functions, as they are registered
  mIncompleteFunctionDeclarations,  \* what processNext processes again, ...
  mProcessingQueue                  \* ... and the data members it comes to after that

declarations == <<script, item, classes, functions, mIncompleteFunctionDeclarations, mProcessingQueue>>

\* No class, as the base of one.
None == 0

-----------------------------------------------------------------------------
(* ClassImpl *)

Vtable(c) == IF c = None THEN <<>> ELSE classes[c].virtualMembers

NewClassEmpty(base) ==    \* a defect
  [ parent |-> base, isAbstract |-> base # None /\ classes[base].isAbstract,
    virtualMembers |-> <<>>, dataMembers |-> <<>> ]

\* ClassImpl::set_parent, with the rest of ClassBuilder::get.
NewClass(base) ==
  [ parent         |-> base,
    isAbstract     |-> base # None /\ classes[base].isAbstract,
    virtualMembers |-> Vtable(base),
    dataMembers    |-> <<>> ]

\* The parameters are not compared: base is compared with base.
CheckOverrides(derived, base) ==
  derived.result = base.result /\ derived.name = base.name

\* What the base has got since the class was made.
Retrieved(table, base) == table \o SubSeq(base, Len(table) + 1, Len(base))

Overridden(f, base) == {i \in DOMAIN base : CheckOverrides(f, functions[base[i]])}

HasPure(table, fs) == \E i \in DOMAIN table : fs[table[i]].pure

\* ClassImpl::register_function with update_vtable, force_virtual and
\* check_still_abstract: declaration d becomes the next function, in class c.
RegisterFunction(c, d) ==
  LET base == Vtable(classes[c].parent)
      table == Retrieved(classes[c].virtualMembers, base)
      slots == Overridden(d, base)
      first == CHOOSE i \in slots : \A j \in slots : i <= j
      id == Len(functions) + 1
      f == [ memberOf |-> c, name |-> d.name, params |-> d.params, result |-> d.result, pure |-> d.pure,
             virtual |-> d.virtual \/ slots # {} ]
      updated == IF slots # {} THEN [table EXCEPT ![first] = id]
                 ELSE IF d.virtual THEN Append(table, id) ELSE table
      abstract == IF slots # {} /\ functions[base[first]].pure
                  THEN HasPure(updated, Append(functions, f))
                  ELSE classes[c].isAbstract
  IN /\ functions' = Append(functions, f)
     /\ classes' = [classes EXCEPT ![c].virtualMembers = updated, ![c].isAbstract = d.pure \/ abstract]

-----------------------------------------------------------------------------
(* compiler::ScriptCompiler *)

Declaration == script[item[1]]
Member == Declaration.members[item[2]]
AtEnd == item[1] > Len(script)
Following ==
  IF item[2] < Len(Declaration.members) THEN <<item[1], item[2] + 1>> ELSE <<item[1] + 1, 0>>

\* A name is resolved if its class is made: also inside of the class itself.
IsKnown(c) == c <= Len(classes)

Declared == AtEnd /\ mIncompleteFunctionDeclarations = <<>> /\ mProcessingQueue = <<>>

DeclarationsInit ==
  /\ script \in Sources
  /\ item = <<1, 0>>
  /\ classes = <<>> /\ functions = <<>>
  /\ mIncompleteFunctionDeclarations = <<>> /\ mProcessingQueue = <<>>

\* processClassDeclaration, up to readClassContent.
ProcessClass ==
  /\ ~AtEnd /\ item[2] = 0
  /\ classes' = Append(classes, NewClass(Declaration.base))
  /\ item' = Following
  /\ UNCHANGED <<script, functions, mIncompleteFunctionDeclarations, mProcessingQueue>>

\* processBasicFunctionDeclaration, or its failure in generic_fill.
ProcessFunction ==
  /\ ~AtEnd /\ item[2] # 0 /\ Member.kind = "function"
  /\ IF IsKnown(Member.uses)
     THEN RegisterFunction(item[1], Member) /\ UNCHANGED mIncompleteFunctionDeclarations
     ELSE /\ mIncompleteFunctionDeclarations' = Append(mIncompleteFunctionDeclarations, <<item[1], Member>>)
          /\ UNCHANGED <<classes, functions>>
  /\ item' = Following
  /\ UNCHANGED <<script, mProcessingQueue>>

\* processOrCollectDeclaration: the type of a data member is not looked at yet.
CollectDataMember ==
  /\ ~AtEnd /\ item[2] # 0 /\ Member.kind = "variable"
  /\ mProcessingQueue' = Append(mProcessingQueue, <<item[1], Member.type>>)
  /\ item' = Following
  /\ UNCHANGED <<script, classes, functions, mIncompleteFunctionDeclarations>>

\* processNext, as long as there are functions.
Reprocess ==
  /\ AtEnd /\ mIncompleteFunctionDeclarations # <<>>
  /\ LET task == Head(mIncompleteFunctionDeclarations) IN RegisterFunction(task[1], task[2])
  /\ mIncompleteFunctionDeclarations' = Tail(mIncompleteFunctionDeclarations)
  /\ UNCHANGED <<script, item, mProcessingQueue>>

\* processNext, after that: VariableProcessor::process_data_member.
ProcessDataMember ==
  /\ AtEnd /\ mIncompleteFunctionDeclarations = <<>> /\ mProcessingQueue # <<>>
  /\ LET task == Head(mProcessingQueue)
     IN classes' = [classes EXCEPT ![task[1]].dataMembers = Append(@, task[2])]
  /\ mProcessingQueue' = Tail(mProcessingQueue)
  /\ UNCHANGED <<script, item, functions, mIncompleteFunctionDeclarations>>

Declare == ProcessClass \/ ProcessFunction \/ CollectDataMember \/ Reprocess \/ ProcessDataMember

-----------------------------------------------------------------------------
(* What a virtual call relies on *)

\* The class itself and its bases.
Lineage[c \in 0 .. Len(classes)] == IF c = None THEN {} ELSE {c} \union Lineage[classes[c].parent]

\* The slot that generateVirtualCall finds for f, in the class f is a member of.
SlotOf(f) == CHOOSE i \in DOMAIN Vtable(functions[f].memberOf) : Vtable(functions[f].memberOf)[i] = f

\* The functions of class c and its bases that f is or that override it, and the last.
Overriders(c, f) ==
  {g \in DOMAIN functions :
     /\ functions[g].name = functions[f].name
     /\ functions[g].params = functions[f].params /\ functions[g].result = functions[f].result
     /\ functions[g].memberOf \in Lineage[c] /\ functions[f].memberOf \in Lineage[functions[g].memberOf]}

Overrider(c, f) ==
  LET all == Overriders(c, f)
  IN  CHOOSE g \in all : \A h \in all : functions[h].memberOf <= functions[g].memberOf

\* A call of the virtual function f is compiled to the slot of f in the table of f's
\* class.  Whatever class the object has, its table holds there the function that
\* overrides f, by the same name, for the same parameters and with the same result, in
\* the class that is nearest to the object's.
CallsTheOverrider ==
  Declared =>
    \A f \in DOMAIN functions : functions[f].virtual =>
      /\ f \in ToSet(Vtable(functions[f].memberOf))
      /\ \A c \in DOMAIN classes : functions[f].memberOf \in Lineage[c] =>
           SlotOf(f) \in DOMAIN Vtable(c) /\ Vtable(c)[SlotOf(f)] = Overrider(c, f)

\* isAbstract is copied from the base, set and recomputed here and there.  In the end
\* it says whether there is a function of the class, or of a base, that is pure
\* and that nothing overrides.
AbstractIsRight ==
  Declared =>
    \A c \in DOMAIN classes :
      classes[c].isAbstract <=>
        \E f \in DOMAIN functions :
          functions[f].memberOf \in Lineage[c] /\ functions[f].virtual /\ functions[Overrider(c, f)].pure

\* The tables and the flag agree with the declarations, whatever their order was.
VtablesAreRight == CallsTheOverrider /\ AbstractIsRight
==============================================================================
