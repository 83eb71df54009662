------------------------------ MODULE ZkReads ------------------------------
(***************************************************************************)
(* The reads of ZookeeperManager that take more than one call or adjust    *)
(* what a call gives them: GetChildrenValue, which lists a node's children *)
(* and then gets them one after the other while other clients change them, *)
(* GetCString and ChangeToAbsPath (CppZookeeper.cpp).                      *)
(*                                                                         *)
(* A value is a sequence of characters, or Null for a node without data.   *)
(* zoo_get copies at most the buffer's length and returns how much it has  *)
(* copied, -1 for Null.  It refuses a path with two slashes in a row, as   *)
(* GetChildrenValue makes it of a child of "/".                            *)
(*                                                                         *)
(* A name that ends in _Faulty is a plausible bug in the definition that   *)
(* follows it, on which the properties are tried.                          *)
(***************************************************************************)
EXTENDS Integers, Sequences, FiniteSets, SequencesExt

CONSTANTS
  Children, Data,     \* the names and the values of the children
  Absent, Null,
  max_value_size,
  MaxChanges          \* bound: changes made by other clients

VARIABLES
  abs_path,        \* "/" or a longer one
  tree,            \* child -> its value, or Absent
  at,              \* where GetChildrenValue is
  children,        \* the listed children that are still to be got
  children_value,  \* the map that it fills
  ret,
  listed, had,     \* history: the children listed, child -> values since the call
  changes

vars == <<abs_path, tree, at, children, children_value, ret, listed, had, changes>>

Blank == 0

\* zoo_get into a buffer of n characters: the length it returns.
Copied(value, n) ==
  IF value = Null THEN -1 ELSE IF Len(value) <= n THEN Len(value) ELSE n

Blanks(n) == [i \in 1 .. n |-> Blank]

Present == {c \in Children : tree[c] # Absent}

Init ==
  /\ abs_path \in {"/", "/node"}
  /\ tree \in [Children -> Data \union {Absent}]
  /\ at = "idle"
  /\ children = <<>>
  /\ children_value = <<>>
  /\ ret = "ZOK"
  /\ listed = {}
  /\ had = [c \in Children |-> {}]
  /\ changes = 0

\* The map is cleared after the listing has succeeded.  The server may list the
\* children in any order.
GetChildren ==
  /\ at = "idle"
  /\ had' = [c \in Children |-> {tree[c]}]
  /\ \/ /\ ret' = "ZCONNECTIONLOSS"
        /\ at' = "done"
        /\ UNCHANGED <<children, children_value, listed>>
     \/ /\ children' \in SetToSeqs(Present)
        /\ children_value' = <<>>
        /\ listed' = Present
        /\ at' = "get"
        /\ UNCHANGED ret
  /\ UNCHANGED <<abs_path, tree, changes>>

\* The map with this value for the child.
With(child, value) ==
  [c \in DOMAIN children_value \union {child} |->
     IF c = child THEN value ELSE children_value[c]]

\* What the map gets for a child before zoo_get has answered.
Made(child) == With(child, Blanks(max_value_size))

\* What the calls for a child's value may fail with.
Errors(child) ==
  IF abs_path = "/" THEN {"ZBADARGUMENTS"}
  ELSE {"ZCONNECTIONLOSS"} \union (IF tree[child] = Absent THEN {"ZNONODE"} ELSE {})

\* A child that cannot be read is passed over.
GetFails_Faulty ==
  /\ at = "get" /\ children # <<>>
  /\ ret' \in Errors(Head(children))
  /\ children_value' = Made(Head(children))
  /\ children' = Tail(children)
  /\ UNCHANGED <<abs_path, tree, at, listed, had, changes>>

\* The call ends at the first child that cannot be read: it is gone, or the
\* connection is, or the path is refused.  Its entry stays in the map.
GetFails ==
  /\ at = "get" /\ children # <<>>
  /\ ret' \in Errors(Head(children))
  /\ children_value' = Made(Head(children))
  /\ at' = "done"
  /\ UNCHANGED <<abs_path, tree, children, listed, had, changes>>

\* resize(-1) throws length_error: a node without data ends the call as well.
Get ==
  /\ at = "get" /\ children # <<>>
  /\ abs_path # "/" /\ tree[Head(children)] # Absent
  /\ LET child == Head(children)
         n == Copied(tree[child], max_value_size)
     IN  IF n < 0
         THEN /\ ret' = "length_error"
              /\ at' = "done"
              /\ children_value' = Made(child)
              /\ UNCHANGED children
         ELSE /\ children_value' = With(child, SubSeq(tree[child], 1, n))
              /\ children' = Tail(children)
              /\ UNCHANGED <<ret, at>>
  /\ UNCHANGED <<abs_path, tree, listed, had, changes>>

GetChildrenValueReturns ==
  /\ at = "get" /\ children = <<>>
  /\ at' = "done"
  /\ ret' = "ZOK"
  /\ UNCHANGED <<abs_path, tree, children, children_value, listed, had, changes>>

\* Another client creates, writes or deletes a child.
Change ==
  /\ changes < MaxChanges /\ at # "done"
  /\ \E c \in Children, value \in Data \union {Absent} :
       /\ value # tree[c]
       /\ tree' = [tree EXCEPT ![c] = value]
       /\ had' = IF at = "idle" THEN had ELSE [had EXCEPT ![c] = @ \union {value}]
  /\ changes' = changes + 1
  /\ UNCHANGED <<abs_path, at, children, children_value, ret, listed>>

Next == GetChildren \/ GetFails \/ Get \/ GetChildrenValueReturns \/ Change

Spec == Init /\ [][Next]_vars

-----------------------------------------------------------------------------
(* Functions *)

\* The caller's buffer after a GetCString that succeeded: the value, cut to leave
\* room, a NUL, and what the buffer held behind it.
GetCString(buffer, value) ==
  LET n == Copied(value, Len(buffer) - 1)
  IN  [i \in DOMAIN buffer |-> CASE i <= n -> value[i]
                                 [] i = n + 1 -> Blank
                                 [] OTHER -> buffer[i]]

\* m_root_path starts with a slash (CppZookeeper.cpp:184).
ChangeToAbsPath(m_root_path, path, slash) ==
  CASE path = <<>> -> m_root_path
    [] path # <<>> /\ Head(path) = slash -> path
    [] OTHER -> IF Last(m_root_path) = slash THEN m_root_path \o path
                                             ELSE m_root_path \o <<slash>> \o path

-----------------------------------------------------------------------------
(* Properties *)

\* A value that GetChildrenValue may show for v: v cut at max_value_size.
Shown(v) ==
  IF v \in {Absent, Null} THEN Absent
  ELSE SubSeq(v, 1, Copied(v, max_value_size))

\* Whatever other clients do between the calls that GetChildrenValue makes, what it
\* returns with ZOK is a value of each child of the listing, and no other, that the
\* child had during the call.  When it fails the same holds of the entries it has
\* made, but for the blanks of the child that it failed on.
ChildrenValueIsTrue ==
  at = "done" /\ listed # {} =>
    LET true == {c \in DOMAIN children_value :
                   children_value[c] \in {Shown(v) : v \in had[c]}}
    IN  /\ DOMAIN children_value \subseteq listed
        /\ ret = "ZOK" => true = listed
        /\ \A c \in DOMAIN children_value \ true :
             children_value[c] = Blanks(max_value_size)
        /\ Cardinality(DOMAIN children_value \ true) <= 1

\* GetCString gives a string that ends within the buffer and is the value as far as
\* there is room, whatever the buffer held before (CppZookeeper.h:357).
CStringFits(buffer, value) ==
  buffer # <<>> =>
    LET data == GetCString(buffer, value)
        n == CHOOSE i \in 0 .. Len(data) :
               /\ i < Len(data) => data[i + 1] = Blank
               /\ \A j \in 1 .. i : data[j] # Blank
    IN  /\ n < Len(buffer)
        /\ SubSeq(data, 1, n) = SubSeq(value, 1, n)
        /\ n = Len(value) \/ n = Len(buffer) - 1

\* A path may be converted twice, as GetChildrenValue does with its argument: what
\* is absolute stays as it is.
AbsPathStays(root, path, slash) ==
  LET absolute == ChangeToAbsPath(<<slash>> \o root, path, slash)
  IN  /\ Head(absolute) = slash
      /\ ChangeToAbsPath(<<slash>> \o root, absolute, slash) = absolute
=============================================================================
