----------------------------- MODULE DDXParser -----------------------------
(***************************************************************************)
(* DDXParser: the callbacks that libxml2 makes while it reads a DDX, the   *)
(* XML form of a dataset's variables and attributes.  The parser keeps a   *)
(* stack of states, a stack of variables and a stack of attribute tables,  *)
(* and puts each variable into the one below it when its element ends.     *)
(*                                                                         *)
(* The document is made up as it is read: any element may begin and the    *)
(* innermost one may end, so that tags are balanced (libxml2 sees to it)   *)
(* and everything else is up to the parser.  Elements are numbered in the  *)
(* order of their start tags and the number stands for the variable, the   *)
(* attribute table or the attribute that the parser makes of it; the DDS   *)
(* is number 0.  One document per parser.                                  *)
(*                                                                         *)
(* end_container_keeping_table, end_popping_error and Outermost are        *)
(* mistakes the code does not make, to try the properties on.              *)
(***************************************************************************)
EXTENDS Integers, Sequences, FiniteSets

CONSTANTS
    Elements,       \* the start tags of documents
    MaxElements,    \* bound: how many there are in one
    UINT_MAX        \* other_xml_depth is unsigned

SimpleTags == {"Byte", "Int64"}     \* Int64: a type of DAP4, which factory() does not know
VariableTags == SimpleTags \cup {"Array", "Map", "Structure", "Sequence", "Grid"}
Tags == VariableTags \cup
    {"Dataset", "Attribute", "Alias", "value", "dimension", "blob", "foreign"}

(* type: an Attribute's type, Byte for all that have values.               *)
(* complete: the attributes check_required_attribute asks for are there.   *)
(* dap: the element is in the namespace of the root.                       *)
StartTags == [tag : Tags, type : {"none", "Byte", "Container", "OtherXML"},
              complete : BOOLEAN, dap : BOOLEAN]

ASSUME DDXAssumption ==
    /\ Elements \subseteq StartTags
    /\ \A e \in Elements : e.type = "none" <=> e.tag # "Attribute"
    /\ MaxElements \in Nat /\ UINT_MAX \in Nat

VARIABLES
    open,               \* the open elements, outermost first: the document
    count,              \* how many have begun
    s,                  \* DDXParser::s, the states; the last is the top
    bt_stack,           \* the variables under construction
    at_stack,           \* the attribute tables they are read into
    other_xml_depth,
    dods_attr_name,     \* the attribute that values are for; 0: none yet
    errors,             \* error_msg is not empty
    vars_added,         \* pairs of a variable and one add_var put into it
    attrs_added,        \* a table, the attribute, and the value appended to it
    outcome,            \* of intern()
    doc_vars,           \* the same of the document: variables,
    doc_attrs,          \* attributes;
    nested              \* an Attribute began inside one that is no container

attribute == <<other_xml_depth, dods_attr_name>>
parserVars == <<s, bt_stack, at_stack, attribute, errors, vars_added, attrs_added>>
docVars == <<open, count, doc_vars, doc_attrs, nested>>
vars == <<docVars, parserVars, outcome>>

States == {"parser_start", "inside_dataset", "inside_attribute_container",
           "inside_attribute", "inside_attribute_value", "inside_other_xml_attribute",
           "inside_alias", "inside_simple_type", "inside_array", "inside_dimension",
           "inside_grid", "inside_map", "inside_structure", "inside_sequence",
           "inside_blob_href", "parser_error"}

Types == {"simple", "array", "structure", "sequence", "grid"}

Top(stack) == stack[Len(stack)]
Pop(stack) == SubSeq(stack, 1, Len(stack) - 1)

get_state == Top(s)

-----------------------------------------------------------------------------
(* Errors.                                                                 *)

(* ddx_fatal_error pushes a state that nothing pops.                       *)
fatal_error ==
    /\ s' = Append(s, "parser_error")
    /\ errors' = TRUE
    /\ UNCHANGED <<bt_stack, at_stack, attribute, vars_added, attrs_added>>

(* check_required_attribute reports an attribute that is missing, and then *)
(* returns true: the callers go on, and push their state on the error.     *)
Checked(e) == IF e.complete THEN s ELSE Append(s, "parser_error")
Reported(e) == errors \/ ~e.complete

-----------------------------------------------------------------------------
(* Start tags.                                                             *)

AttributeState(type) ==
    CASE type = "Container" -> "inside_attribute_container"
      [] type = "OtherXML"  -> "inside_other_xml_attribute"
      [] OTHER              -> "inside_attribute"

process_attribute_element(e, id) ==
    /\ e.tag = "Attribute"
    /\ s' = Append(Checked(e), AttributeState(e.type))
    /\ errors' = Reported(e)
    /\ IF e.type = "Container"
       THEN /\ at_stack' = Append(at_stack, id)
            /\ attrs_added' = attrs_added \cup {<<Top(at_stack), id, id>>}
            /\ UNCHANGED dods_attr_name
       ELSE dods_attr_name' = id /\ UNCHANGED <<at_stack, attrs_added>>
    /\ UNCHANGED <<bt_stack, other_xml_depth, vars_added>>

process_attribute_alias(e, id) ==
    /\ e.tag = "Alias"
    /\ s' = Append(Checked(e), "inside_alias")
    /\ errors' = Reported(e)
    /\ attrs_added' = attrs_added \cup {<<Top(at_stack), id, id>>}
    /\ UNCHANGED <<bt_stack, at_stack, attribute, vars_added>>

is_attribute_or_alias(e, id) == process_attribute_element(e, id) \/ process_attribute_alias(e, id)

(* The state is pushed before the name is asked for.                       *)
process_variable(t, state, e, id) ==
    LET named == e.complete \/ Top(bt_stack).type = "array"
    IN  /\ s' = IF named THEN Append(s, state) ELSE Append(Append(s, state), "parser_error")
        /\ errors' = (errors \/ ~named)
        /\ bt_stack' = Append(bt_stack, [id |-> id, type |-> t, dims |-> FALSE])
        /\ at_stack' = Append(at_stack, id)
        /\ UNCHANGED <<attribute, vars_added, attrs_added>>

VariableType(tag) ==
    CASE tag \in SimpleTags     -> "simple"
      [] tag \in {"Array", "Map"} -> "array"
      [] tag = "Structure"      -> "structure"
      [] tag = "Sequence"       -> "sequence"
      [] tag = "Grid"           -> "grid"

VariableState(tag) ==
    CASE tag \in SimpleTags -> "inside_simple_type"
      [] tag = "Array"      -> "inside_array"
      [] tag = "Map"        -> "inside_map"
      [] tag = "Structure"  -> "inside_structure"
      [] tag = "Sequence"   -> "inside_sequence"
      [] tag = "Grid"       -> "inside_grid"

is_variable(e, id, allowed) ==
    /\ e.tag \in allowed
    /\ process_variable(VariableType(e.tag), VariableState(e.tag), e, id)

(* factory() returns NULL, which is pushed and dereferenced.               *)
Unknown(e) == e.tag = "Int64"

process_dimension(e) ==
    /\ e.tag = "dimension"
    /\ IF Top(bt_stack).type = "array"
       THEN /\ s' = Append(Checked(e), "inside_dimension")
            /\ errors' = Reported(e)
            /\ bt_stack' = [bt_stack EXCEPT ![Len(bt_stack)].dims = TRUE]
       ELSE /\ s' = Append(Append(Checked(e), "inside_dimension"), "parser_error")
            /\ errors' = TRUE
            /\ UNCHANGED bt_stack
    /\ UNCHANGED <<at_stack, attribute, vars_added, attrs_added>>

process_blob(e) ==
    /\ e.tag = "blob"
    /\ s' = Append(Checked(e), "inside_blob_href")
    /\ errors' = Reported(e)
    /\ UNCHANGED <<bt_stack, at_stack, attribute, vars_added, attrs_added>>

(* The variables that may begin in each state.                             *)
Allowed(state) ==
    LET any == VariableTags \ {"Map"}
    IN  CASE state \in {"inside_dataset", "inside_structure", "inside_sequence"} -> any
          [] state = "inside_array" -> any \ {"Array"}
          [] state = "inside_map"   -> any \ {"Array", "Sequence", "Grid"}
          [] state = "inside_grid"  -> {"Array", "Map"}
          [] OTHER                  -> {}

HasAttributes(state) ==
    state \in {"inside_dataset", "inside_attribute_container", "inside_attribute",
               "inside_simple_type", "inside_array", "inside_structure",
               "inside_sequence", "inside_grid", "inside_map"}

Expected(e, state) ==
    \/ state = "parser_start" /\ e.tag = "Dataset"
    \/ HasAttributes(state) /\ e.tag \in {"Attribute", "Alias"}
    \/ e.tag \in Allowed(state)
    \/ state \in {"inside_array", "inside_map"} /\ e.tag = "dimension"
    \/ state = "inside_dataset" /\ e.tag = "blob"
    \/ state = "inside_attribute" /\ e.tag = "value"

start_dataset(e) ==
    /\ get_state = "parser_start" /\ e.tag = "Dataset"
    /\ s' = IF e.complete THEN Append(s, "inside_dataset")
            ELSE Append(Append(s, "inside_dataset"), "parser_error")
    /\ errors' = Reported(e)
    /\ UNCHANGED <<bt_stack, at_stack, attribute, vars_added, attrs_added>>

start_value(e) ==
    /\ get_state = "inside_attribute" /\ e.tag = "value"
    /\ s' = Append(s, "inside_attribute_value")
    /\ UNCHANGED <<bt_stack, at_stack, attribute, errors, vars_added, attrs_added>>

start_other_xml(e) ==
    /\ get_state = "inside_other_xml_attribute"
    /\ other_xml_depth' = (other_xml_depth + 1) % (UINT_MAX + 1)
    /\ UNCHANGED <<s, bt_stack, at_stack, dods_attr_name, errors, vars_added, attrs_added>>

ddx_sax2_start_element(e, id) ==
    \/ start_dataset(e)
    \/ HasAttributes(get_state) /\ is_attribute_or_alias(e, id)
    \/ ~Unknown(e) /\ is_variable(e, id, Allowed(get_state))
    \/ get_state \in {"inside_array", "inside_map"} /\ process_dimension(e)
    \/ get_state = "inside_dataset" /\ process_blob(e)
    \/ start_value(e)
    \/ start_other_xml(e)
    \/ get_state = "parser_error" /\ UNCHANGED parserVars
    \/ /\ get_state \notin {"inside_other_xml_attribute", "parser_error"}
       /\ ~Expected(e, get_state)
       /\ fatal_error

-----------------------------------------------------------------------------
(* End tags.  e is the element that ends.                                  *)

EndTag(state) ==
    CASE state = "inside_dataset"   -> "Dataset"
      [] state \in {"inside_attribute_container", "inside_attribute"} -> "Attribute"
      [] state = "inside_attribute_value" -> "value"
      [] state = "inside_array"     -> "Array"
      [] state = "inside_map"       -> "Map"
      [] state = "inside_structure" -> "Structure"
      [] state = "inside_sequence"  -> "Sequence"
      [] state = "inside_grid"      -> "Grid"
      [] state = "inside_dimension" -> "dimension"
      [] state = "inside_blob_href" -> "blob"
      [] OTHER                      -> "none"

(* An Alias ends with whatever ends, a simple type with any simple type.   *)
Ends(e, state) ==
    \/ state = "inside_alias"
    \/ state = "inside_simple_type" /\ e.tag \in SimpleTags
    \/ e.tag = EndTag(state)

end_pops(e) ==
    /\ get_state \in {"inside_dataset", "inside_attribute", "inside_alias",
                      "inside_dimension", "inside_blob_href"}
    /\ Ends(e, get_state)
    /\ s' = Pop(s)
    /\ UNCHANGED <<bt_stack, at_stack, attribute, errors, vars_added, attrs_added>>

end_container_keeping_table(e) ==
    /\ get_state = "inside_attribute_container" /\ Ends(e, get_state)
    /\ s' = Pop(s)
    /\ UNCHANGED <<bt_stack, at_stack, attribute, errors, vars_added, attrs_added>>

end_container(e) ==
    /\ get_state = "inside_attribute_container" /\ Ends(e, get_state)
    /\ s' = Pop(s) /\ at_stack' = Pop(at_stack)
    /\ UNCHANGED <<bt_stack, attribute, errors, vars_added, attrs_added>>

end_value(e, id) ==
    /\ get_state = "inside_attribute_value" /\ Ends(e, get_state)
    /\ s' = Pop(s)
    /\ attrs_added' = attrs_added \cup {<<Top(at_stack), dods_attr_name, id>>}
    /\ UNCHANGED <<bt_stack, at_stack, attribute, errors, vars_added>>

(* Any Attribute of the root's namespace ends the attribute.               *)
end_other_xml_attribute(e, id) ==
    /\ get_state = "inside_other_xml_attribute" /\ e.tag = "Attribute" /\ e.dap
    /\ s' = Pop(s)
    /\ attrs_added' = attrs_added \cup {<<Top(at_stack), dods_attr_name, id>>}
    /\ UNCHANGED <<bt_stack, at_stack, attribute, errors, vars_added>>

Decremented(depth) == (depth - 1) % (UINT_MAX + 1)

end_other_xml(e) ==
    /\ get_state = "inside_other_xml_attribute" /\ ~(e.tag = "Attribute" /\ e.dap)
    /\ IF other_xml_depth = 0 THEN s' = Append(s, "parser_error") /\ errors' = TRUE
       ELSE UNCHANGED <<s, errors>>
    /\ other_xml_depth' = Decremented(other_xml_depth)
    /\ UNCHANGED <<bt_stack, at_stack, dods_attr_name, vars_added, attrs_added>>

StateType(state) ==
    CASE state = "inside_simple_type" -> "simple"
      [] state \in {"inside_array", "inside_map"} -> "array"
      [] state = "inside_structure"   -> "structure"
      [] state = "inside_sequence"    -> "sequence"
      [] state = "inside_grid"        -> "grid"

VariableStates == {"inside_simple_type", "inside_array", "inside_map",
                   "inside_structure", "inside_sequence", "inside_grid"}

(* finish_variable, and the end of a simple type.  The variable is off the *)
(* stacks before it is looked at.                                          *)
Outermost(stack) == stack[1]
Parent(stack) == stack[Len(stack) - 1]

Faulty(btp, state) ==
    /\ state # "inside_simple_type"
    /\ btp.type # StateType(state) \/ (btp.type = "array" /\ ~btp.dims)

finish_variable(e) ==
    /\ get_state \in VariableStates /\ Ends(e, get_state)
    /\ bt_stack' = Pop(bt_stack) /\ at_stack' = Pop(at_stack)
    /\ IF \/ Faulty(Top(bt_stack), get_state)
          \/ Parent(bt_stack).type = "simple"
       THEN /\ s' = Append(Pop(s), "parser_error") /\ errors' = TRUE
            /\ UNCHANGED vars_added
       ELSE /\ s' = Pop(s)
            /\ vars_added' = vars_added \cup {<<Parent(bt_stack).id, Top(bt_stack).id>>}
            /\ UNCHANGED errors
    /\ UNCHANGED <<attribute, attrs_added>>

end_popping_error ==
    /\ get_state = "parser_error"
    /\ s' = Pop(s)
    /\ UNCHANGED <<bt_stack, at_stack, attribute, errors, vars_added, attrs_added>>

end_ignored == get_state = "parser_error" /\ UNCHANGED parserVars

ddx_sax2_end_element(e, id) ==
    \/ end_pops(e) \/ end_container(e) \/ end_value(e, id) \/ finish_variable(e)
    \/ end_other_xml_attribute(e, id) \/ end_other_xml(e)
    \/ end_ignored
    \/ /\ get_state \notin {"inside_other_xml_attribute", "parser_error"}
       /\ ~Ends(e, get_state)
       /\ fatal_error

-----------------------------------------------------------------------------
(* The document, and what libxml2 makes of it.                             *)

Root == [id |-> 0, type |-> "structure", dims |-> FALSE]

(* ddx_start_document.                                                     *)
Init ==
    /\ open = <<>> /\ count = 0
    /\ s = <<"parser_start">> /\ bt_stack = <<Root>> /\ at_stack = <<0>>
    /\ other_xml_depth = 0 /\ dods_attr_name = 0 /\ errors = FALSE
    /\ vars_added = {} /\ attrs_added = {}
    /\ outcome = "parsing"
    /\ doc_vars = {} /\ doc_attrs = {} /\ nested = FALSE

(* The innermost open element that is a variable, or that has a table of   *)
(* attributes: a variable again, or an Attribute that is a container.      *)
InnermostOf(elements) ==
    LET ids == {0} \cup {x.id : x \in elements}
    IN  CHOOSE id \in ids : \A other \in ids : other <= id

OpenVariables == {open[i] : i \in {j \in DOMAIN open : open[j].tag \in VariableTags}}
OpenContainers ==
    {open[i] : i \in {j \in DOMAIN open : open[j].tag = "Attribute" /\ open[j].type = "Container"}}

InOtherXML == \E i \in DOMAIN open : open[i].type = "OtherXML"

(* What the document says, noted until an error is found.                  *)
NoteVariable(e, id) ==
    doc_vars' = IF e.tag \in VariableTags /\ ~InOtherXML /\ ~errors
                THEN doc_vars \cup {<<InnermostOf(OpenVariables), id>>}
                ELSE doc_vars

NoteAttribute(e, id) ==
    /\ doc_attrs' =
         IF /\ e.tag \in {"value", "Alias"} \/ e.type \in {"Container", "OtherXML"}
            /\ open # <<>> /\ ~InOtherXML /\ ~errors
         THEN doc_attrs \cup {<<InnermostOf(OpenVariables \cup OpenContainers),
                               IF e.tag = "value" THEN Top(open).id ELSE id, id>>}
         ELSE doc_attrs
    /\ nested' = (nested \/ (/\ e.tag = "Attribute" /\ open # <<>>
                             /\ (InOtherXML /\ e.dap) \/ Top(open).type = "Byte"))

(* Bound: once the parser ignores what it is told (parser_error is on top  *)
(* and stays there) one more element is enough.                            *)
StartElement(e) ==
    LET id == count + 1
    IN  /\ outcome = "parsing"
        /\ count < MaxElements /\ (count > 0 => open # <<>>)
        /\ ddx_sax2_start_element(e, id)
        /\ open' = Append(open, [id |-> id, tag |-> e.tag, type |-> e.type, dap |-> e.dap])
        /\ count' = IF get_state = "parser_error" THEN MaxElements ELSE id
        /\ NoteVariable(e, id) /\ NoteAttribute(e, id)
        /\ UNCHANGED outcome

(* process_variable dereferences the NULL that factory() returned.         *)
DereferenceNull(e) ==
    /\ outcome = "parsing"
    /\ count < MaxElements /\ (count > 0 => open # <<>>)
    /\ Unknown(e) /\ e.tag \in Allowed(get_state)
    /\ outcome' = "crashed"
    /\ UNCHANGED <<docVars, parserVars>>

EndElement ==
    /\ outcome = "parsing" /\ open # <<>>
    /\ ddx_sax2_end_element(Top(open), Top(open).id)
    /\ open' = Pop(open)
    /\ UNCHANGED <<count, doc_vars, doc_attrs, nested, outcome>>

(* A warning of libxml2, or a CData block (ddx_get_cdata).  More of them   *)
(* than one in a place change nothing more.                                *)
Warning ==
    /\ outcome = "parsing" /\ get_state # "parser_error"
    /\ fatal_error
    /\ UNCHANGED <<docVars, outcome>>

ddx_get_cdata ==
    /\ outcome = "parsing" /\ get_state \notin {"inside_other_xml_attribute", "parser_error"}
    /\ fatal_error
    /\ UNCHANGED <<docVars, outcome>>

(* ddx_end_document and cleanup_parse.                                     *)
EndDocument ==
    /\ outcome = "parsing" /\ open = <<>> /\ count > 0
    /\ IF get_state = "parser_start" THEN outcome' = "accepted" /\ UNCHANGED parserVars
       ELSE outcome' = "failed" /\ fatal_error
    /\ UNCHANGED docVars

(* The document is not well-formed, or ends too early.                     *)
NotWellFormed ==
    /\ outcome = "parsing"
    /\ outcome' = "failed" /\ fatal_error
    /\ UNCHANGED docVars

Next ==
    \/ \E e \in Elements : StartElement(e) \/ DereferenceNull(e)
    \/ EndElement \/ Warning \/ ddx_get_cdata \/ EndDocument \/ NotWellFormed

Spec == Init /\ [][Next]_vars

-----------------------------------------------------------------------------
(* Properties.                                                             *)

Variables == [id : Nat, type : Types, dims : BOOLEAN]
OpenElements == [id : 0 .. MaxElements, tag : Tags, type : {"none", "Byte", "Container", "OtherXML"},
                 dap : BOOLEAN]

(* The stacks hold what they are declared to hold and the states never run *)
(* out.  (doc_vars and doc_attrs are made of the ids in open.)             *)
TypeOK ==
    /\ open \in Seq(OpenElements) /\ count \in 0 .. MaxElements
    /\ s \in Seq(States) /\ Len(s) > 0
    /\ bt_stack \in Seq(Variables) /\ at_stack \in Seq(Nat)
    /\ other_xml_depth \in 0 .. UINT_MAX /\ errors \in BOOLEAN
    /\ vars_added \subseteq Nat \X Nat /\ attrs_added \subseteq Nat \X Nat \X Nat
    /\ dods_attr_name \in Nat /\ nested \in BOOLEAN
    /\ outcome \in {"parsing", "accepted", "failed", "crashed"}

TableStates == VariableStates \cup {"inside_attribute_container"}

(* How many of the first n states of a stack are among those.              *)
Count(stack, states, n) == Cardinality({i \in 1 .. n : stack[i] \in states})

(* The three stacks stay in step through every document, errors included:  *)
(* for each state inside a variable there is that variable, of the type    *)
(* the state expects, and for each that has attributes a table.  So no     *)
(* stack runs empty, an array is there for its dimensions, and the         *)
(* "Internal error" of finish_variable is never met.                       *)
StacksInStep ==
    /\ Len(bt_stack) = 1 + Count(s, VariableStates, Len(s))
    /\ Len(at_stack) = 1 + Count(s, TableStates, Len(s))
    /\ \A i \in 1 .. Len(s) : s[i] \in VariableStates =>
         bt_stack[1 + Count(s, VariableStates, i)].type = StateType(s[i])

(* An error is never forgotten, wherever on the stack its state is left:   *)
(* intern() does not return normally once one has been reported.           *)
AcceptedWithoutErrors == outcome = "accepted" => ~errors

(* What is accepted is the document: each variable has been added to the   *)
(* one whose element encloses its own, and each value, container, alias    *)
(* and OtherXML to the table of the innermost element that has one, under  *)
(* its own name.  This holds unless Attributes are inside Attributes that  *)
(* are no containers: then an inner name replaces the outer one's in       *)
(* dods_attr_name, and an Attribute in OtherXML ends the OtherXML.         *)
DDSIsTheDocument ==
    outcome = "accepted" /\ ~nested => vars_added = doc_vars /\ attrs_added = doc_attrs
=============================================================================
