-------------------------------- MODULE Panels ---------------------------------
(* src/virtual_fs/nedomc.c: two panels, each with the listing of a directory and a  *)
(* cursor.  Which directories can be opened changes under the program.               *)
EXTENDS Integers, Sequences, FiniteSets

CONSTANTS
    Dirs,               \* the real paths of directories: sequences of names
    Contents,           \* each directory: what its names lead to, one of Dirs or NotADir
    NotADir,
    StartDir,           \* where the program is started
    MaxFiles            \* MAX_FILES

ASSUME PanelsAssumption ==
    /\ Dirs \subseteq Seq(STRING) /\ <<>> \in Dirs /\ StartDir \in Dirs /\ NotADir \notin Dirs
    /\ \A d \in Dirs : /\ Contents[d] \in [DOMAIN Contents[d] -> Dirs \cup {NotADir}]
                      /\ IsFiniteSet(DOMAIN Contents[d])
    /\ \A d \in Dirs \ {<<>>} : SubSeq(d, 1, Len(d) - 1) \in Dirs
    /\ MaxFiles \in Nat \ {0}

Parent == ".."
Sides  == {0, 1}                                \* left, right

VARIABLES
    openable,           \* the directories that opendir() opens
    panels,             \* each panel: files, selected, path, and whether files were freed
    active,
    quit

pVars == <<openable, panels, active, quit>>

Names == UNION {DOMAIN Contents[d] : d \in Dirs}

PTypeOK ==
    /\ openable \subseteq Dirs /\ active \in Sides /\ quit \in BOOLEAN
    /\ \A s \in Sides :
         /\ Len(panels[s].files) <= MaxFiles
         /\ \A i \in DOMAIN panels[s].files : panels[s].files[i] \in Names \cup {Parent}
         /\ panels[s].selected \in Nat /\ panels[s].freed \in BOOLEAN

\* readdir() in any order, until MAX_FILES entries with the first one are there.
\* (Mutant: no limit.)
NoLimit(d) == Cardinality(DOMAIN Contents[d])
Shown(d) ==
    LET all == Cardinality(DOMAIN Contents[d])
    IN  IF all < MaxFiles THEN all ELSE MaxFiles - 1

Listings(d) ==
    {<<Parent>> \o names :
       names \in {f \in [1 .. Shown(d) -> DOMAIN Contents[d]] :
                    \A i, j \in 1 .. Shown(d) : f[i] = f[j] => i = j}}

\* load_dir() on a panel whose entries were freed before.  It sets the path to the
\* real one; when the directory cannot be opened it changes nothing.
\* (Mutant: the cursor stays where it was.)
LoadedAtCursor(p, path) ==
    IF path \in openable
    THEN {[p EXCEPT !.files = l, !.path = path, !.freed = FALSE] : l \in Listings(path)}
    ELSE {[p EXCEPT !.freed = TRUE]}
Loaded(p, path) ==
    IF path \in openable
    THEN {[files |-> l, selected |-> 0, path |-> path, freed |-> FALSE] : l \in Listings(path)}
    ELSE {[p EXCEPT !.freed = TRUE]}

\* What was on the stack: nothing that may be used.
Uninitialized == [files |-> <<>>, selected |-> 0, path |-> <<>>, freed |-> TRUE]

PInit ==
    /\ openable \in SUBSET Dirs
    /\ panels \in {f \in [Sides -> Loaded(Uninitialized, StartDir)] : TRUE}
    /\ active = 0 /\ quit = FALSE

Panel == panels[active]

SetPanel(p) == panels' = [panels EXCEPT ![active] = p]

SwitchPanel ==
    /\ ~quit /\ active' = 1 - active
    /\ UNCHANGED <<openable, panels, quit>>

MoveCursor ==
    /\ ~quit
    /\ \/ Panel.selected > 0 /\ SetPanel([Panel EXCEPT !.selected = @ - 1])
       \/ Panel.selected < Len(Panel.files) - 1 /\ SetPanel([Panel EXCEPT !.selected = @ + 1])
    /\ UNCHANGED <<openable, active, quit>>

\* The path up to its last '/', which is kept when it is the first character.
\* (Mutant: it is cut off there too, and the empty path names no directory.)
CutAtSlash(path) == IF Len(path) <= 1 THEN <<"">> ELSE SubSeq(path, 1, Len(path) - 1)
Above(path) == IF Len(path) <= 1 THEN <<>> ELSE SubSeq(path, 1, Len(path) - 1)

Under == Panel.files[Panel.selected + 1]

\* Enter on "..", on a directory and on a file, which less shows.  The path is cut
\* before the directory is opened.
EnterParent ==
    /\ ~quit /\ ~Panel.freed /\ Under = Parent
    /\ \E p \in Loaded([Panel EXCEPT !.path = Above(@)], Above(Panel.path)) : SetPanel(p)
    /\ UNCHANGED <<openable, active, quit>>

EnterDirectory ==
    /\ ~quit /\ ~Panel.freed /\ Under # Parent /\ Contents[Panel.path][Under] # NotADir
    /\ \E p \in Loaded(Panel, Contents[Panel.path][Under]) : SetPanel(p)
    /\ UNCHANGED <<openable, active, quit>>

EnterFile ==
    /\ ~quit /\ ~Panel.freed /\ Under # Parent /\ Contents[Panel.path][Under] = NotADir
    /\ UNCHANGED pVars

\* Whatever is done with freed names may end the program, or pass; freeing them
\* again ends it.
UseFreed ==
    /\ ~quit /\ \E s \in Sides : panels[s].freed
    /\ quit' = TRUE
    /\ UNCHANGED <<openable, panels, active>>

Quit ==
    /\ ~quit /\ quit' = TRUE
    /\ UNCHANGED <<openable, panels, active>>

\* Somebody changes the rights of a directory.
Chmod ==
    /\ \E d \in Dirs : openable' = IF d \in openable THEN openable \ {d} ELSE openable \cup {d}
    /\ UNCHANGED <<panels, active, quit>>

PNext ==
    \/ SwitchPanel \/ MoveCursor
    \/ EnterParent \/ EnterDirectory \/ EnterFile
    \/ UseFreed \/ Quit \/ Chmod

PSpec == PInit /\ [][PNext]_pVars

-------------------------------------------------------------------------------
\* A panel in order: its path is a directory's, its entries are "..", and after it
\* what that directory holds, all of it or as much as there is room for, and the
\* cursor is on one of them.
InOrder(p) ==
    /\ ~p.freed /\ p.path \in Dirs
    /\ p.selected < Len(p.files) /\ p.files[1] = Parent
    /\ \A i \in 2 .. Len(p.files) : p.files[i] \in DOMAIN Contents[p.path]
    /\ Len(p.files) = MaxFiles \/ DOMAIN Contents[p.path] \subseteq {p.files[i] : i \in DOMAIN p.files}

Up(d) == IF d = <<>> THEN d ELSE SubSeq(d, 1, Len(d) - 1)

\* Whatever way a user takes through the tree, and through links, both panels stay in
\* order, unless the directory that Enter leads to cannot be opened: then the names
\* are freed and still used.
StaysInOrder ==
    [][\A s \in Sides : InOrder(panels[s]) =>
         \/ InOrder(panels'[s])
         \/ s = active /\ Up(panels[s].path) \notin openable
         \/ s = active /\ \E n \in DOMAIN Contents[panels[s].path] :
                             Contents[panels[s].path][n] \notin openable \cup {NotADir}]_pVars
===============================================================================
