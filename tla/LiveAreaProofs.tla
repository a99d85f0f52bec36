--------------------------- MODULE LiveAreaProofs ---------------------------
(***************************************************************************)
(* Theorems about LiveArea, for any number of faults.                      *)
(***************************************************************************)
EXTENDS LiveArea, TLAPS

-----------------------------------------------------------------------------
(* The scripts, statement by statement.                                    *)
LEMMA Joined ==
    ASSUME NEW s \in Seq(Statement), NEW t \in Seq(Statement)
    PROVE  /\ s \o t \in Seq(Statement) /\ Len(s \o t) = Len(s) + Len(t)
           /\ \A i \in 1..Len(s) + Len(t) : (s \o t)[i] = IF i <= Len(s) THEN s[i] ELSE t[i - Len(s)]
OBVIOUS

(* Two statements before some, and two behind.                             *)
LEMMA Between ==
    ASSUME NEW p \in Seq(Statement), NEW q \in Seq(Statement), NEW r \in Seq(Statement),
           Len(p) = 2, Len(r) = 2
    PROVE  /\ p \o q \o r \in Seq(Statement) /\ Len(p \o q \o r) = Len(q) + 4
           /\ (p \o q \o r)[1] = p[1] /\ (p \o q \o r)[2] = p[2]
           /\ (p \o q \o r)[Len(q) + 3] = r[1] /\ (p \o q \o r)[Len(q) + 4] = r[2]
           /\ \A i \in 1..Len(q) : (p \o q \o r)[i + 2] = q[i]
<1> DEFINE h == p \o q
           s == h \o r
           n == Len(q)
<1>1. /\ h \in Seq(Statement) /\ Len(h) = Len(p) + Len(q)
      /\ \A i \in 1..Len(p) + Len(q) : h[i] = IF i <= Len(p) THEN p[i] ELSE q[i - Len(p)]
    BY Joined, Zenon
<1> HIDE DEF h
<1>2. /\ s \in Seq(Statement) /\ Len(s) = Len(h) + Len(r)
      /\ \A i \in 1..Len(h) + Len(r) : s[i] = IF i <= Len(h) THEN h[i] ELSE r[i - Len(h)]
    BY <1>1, Joined, Zenon
<1> HIDE DEF s
<1>3. n \in Nat
    OBVIOUS
<1> HIDE DEF n
<1>4. Len(h) = n + 2 /\ Len(s) = n + 4
    BY <1>1, <1>2, <1>3 DEF n
<1>5. \A i \in 1..n + 2 : h[i] = IF i <= 2 THEN p[i] ELSE q[i - 2]
    BY <1>1, <1>3 DEF n
<1>6. \A i \in 1..n + 4 : s[i] = IF i <= n + 2 THEN h[i] ELSE r[i - (n + 2)]
    BY <1>2, <1>4
<1>7. s[1] = p[1] /\ s[2] = p[2]
    BY <1>3, <1>5, <1>6
<1>8. s[n + 3] = r[1] /\ s[n + 4] = r[2]
    <2>1. n + 3 \in 1..n + 4 /\ n + 4 \in 1..n + 4 /\ ~ (n + 3 <= n + 2) /\ ~ (n + 4 <= n + 2)
          /\ (n + 3) - (n + 2) = 1 /\ (n + 4) - (n + 2) = 2
        BY <1>3
    <2> QED  BY <1>6, <2>1
<1>9. \A i \in 1..n : s[i + 2] = q[i]
    <2> TAKE i \in 1..n
    <2>1. i + 2 \in 1..n + 2 /\ i + 2 \in 1..n + 4 /\ i + 2 <= n + 2 /\ ~ (i + 2 <= 2) /\ (i + 2) - 2 = i
        BY <1>3
    <2> QED  BY <1>5, <1>6, <2>1
<1> QED  BY <1>2, <1>3, <1>4, <1>7, <1>8, <1>9, Zenon DEF s, h, n

LEMMA PartsTyped ==
    /\ \A what \in Triggers : DoIt("DROP", what) \in Statement /\ DoIt("CREATE", what) \in Statement
    /\ \A what \in {"row", "frames"} : DoIt("DELETE", what) \in Statement
    /\ \A what \in {"psmobile", "pspemu", "frame2", "frame3", "frame4"} :
         DoIt("INSERT", what) \in Statement
BY DEF DoIt, Statement, Frames

LEMMA PiecesTyped ==
    /\ DropTriggers \in Seq(Statement) /\ Len(DropTriggers) = 2
    /\ CreateTriggers \in Seq(Statement) /\ Len(CreateTriggers) = 2
    /\ AddStatements \in Seq(Statement) /\ Len(AddStatements) = 6
    /\ RemoveStatements \in Seq(Statement) /\ Len(RemoveStatements) = 3
BY PartsTyped DEF DropTriggers, CreateTriggers, AddStatements, RemoveStatements, Triggers

LEMMA AddParts ==
    /\ AddScript \in Seq(Statement) /\ Len(AddScript) = 10
    /\ AddScript[1] = DoIt("DROP", "del_img") /\ AddScript[2] = DoIt("DROP", "frame_del_item")
    /\ AddScript[3] = DoIt("DELETE", "row") /\ AddScript[4] = DoIt("INSERT", "psmobile")
    /\ AddScript[5] = DoIt("DELETE", "frames") /\ AddScript[6] = DoIt("INSERT", "frame2")
    /\ AddScript[7] = DoIt("INSERT", "frame3") /\ AddScript[8] = DoIt("INSERT", "frame4")
    /\ AddScript[9] = DoIt("CREATE", "del_img") /\ AddScript[10] = DoIt("CREATE", "frame_del_item")
<1>1. /\ AddScript \in Seq(Statement) /\ Len(AddScript) = 10
      /\ AddScript[1] = DropTriggers[1] /\ AddScript[2] = DropTriggers[2]
      /\ AddScript[3] = AddStatements[1] /\ AddScript[4] = AddStatements[2]
      /\ AddScript[5] = AddStatements[3] /\ AddScript[6] = AddStatements[4]
      /\ AddScript[7] = AddStatements[5] /\ AddScript[8] = AddStatements[6]
      /\ AddScript[9] = CreateTriggers[1] /\ AddScript[10] = CreateTriggers[2]
    <2> DEFINE n == Len(AddStatements)
               s == DropTriggers \o AddStatements \o CreateTriggers
    <2>1. /\ s \in Seq(Statement) /\ Len(s) = n + 4
          /\ s[1] = DropTriggers[1] /\ s[2] = DropTriggers[2]
          /\ s[n + 3] = CreateTriggers[1] /\ s[n + 4] = CreateTriggers[2]
          /\ \A i \in 1..n : s[i + 2] = AddStatements[i]
        <3>1. /\ DropTriggers \in Seq(Statement) /\ CreateTriggers \in Seq(Statement)
              /\ Len(DropTriggers) = 2 /\ Len(CreateTriggers) = 2 /\ AddStatements \in Seq(Statement)
            BY PiecesTyped
        <3> QED  BY <3>1, Between, Zenon
    <2>0. AddScript = s
        BY DEF AddScript
    <2>2. n = 6
        BY PiecesTyped
    <2> HIDE DEF n, s
    <2>3. /\ s[1 + 2] = AddStatements[1] /\ s[2 + 2] = AddStatements[2]
          /\ s[3 + 2] = AddStatements[3] /\ s[4 + 2] = AddStatements[4]
          /\ s[5 + 2] = AddStatements[5] /\ s[6 + 2] = AddStatements[6]
        BY <2>1, <2>2
    <2> QED  BY <2>0, <2>1, <2>2, <2>3
<1> QED  BY <1>1 DEF DropTriggers, CreateTriggers, AddStatements

LEMMA RemoveParts ==
    /\ RemoveScript \in Seq(Statement) /\ Len(RemoveScript) = 7
    /\ RemoveScript[1] = DoIt("DROP", "del_img") /\ RemoveScript[2] = DoIt("DROP", "frame_del_item")
    /\ RemoveScript[3] = DoIt("DELETE", "row") /\ RemoveScript[4] = DoIt("INSERT", "pspemu")
    /\ RemoveScript[5] = DoIt("DELETE", "frames")
    /\ RemoveScript[6] = DoIt("CREATE", "del_img") /\ RemoveScript[7] = DoIt("CREATE", "frame_del_item")
<1>1. /\ RemoveScript \in Seq(Statement) /\ Len(RemoveScript) = 7
      /\ RemoveScript[1] = DropTriggers[1] /\ RemoveScript[2] = DropTriggers[2]
      /\ RemoveScript[3] = RemoveStatements[1] /\ RemoveScript[4] = RemoveStatements[2]
      /\ RemoveScript[5] = RemoveStatements[3]
      /\ RemoveScript[6] = CreateTriggers[1] /\ RemoveScript[7] = CreateTriggers[2]
    <2> DEFINE n == Len(RemoveStatements)
               s == DropTriggers \o RemoveStatements \o CreateTriggers
    <2>1. /\ s \in Seq(Statement) /\ Len(s) = n + 4
          /\ s[1] = DropTriggers[1] /\ s[2] = DropTriggers[2]
          /\ s[n + 3] = CreateTriggers[1] /\ s[n + 4] = CreateTriggers[2]
          /\ \A i \in 1..n : s[i + 2] = RemoveStatements[i]
        <3>1. /\ DropTriggers \in Seq(Statement) /\ CreateTriggers \in Seq(Statement)
              /\ Len(DropTriggers) = 2 /\ Len(CreateTriggers) = 2 /\ RemoveStatements \in Seq(Statement)
            BY PiecesTyped
        <3> QED  BY <3>1, Between, Zenon
    <2>0. RemoveScript = s
        BY DEF RemoveScript
    <2>2. n = 3
        BY PiecesTyped
    <2> HIDE DEF n, s
    <2>3. /\ s[1 + 2] = RemoveStatements[1] /\ s[2 + 2] = RemoveStatements[2]
          /\ s[3 + 2] = RemoveStatements[3]
        BY <2>1, <2>2
    <2> QED  BY <2>0, <2>1, <2>2, <2>3
<1> QED  BY <1>1 DEF DropTriggers, CreateTriggers, RemoveStatements

(* The rest of a script after k statements.                                *)
Rest(s, k) == SubSeq(s, k + 1, Len(s))

LEMMA RestTyped ==
    ASSUME NEW s \in Seq(Statement), NEW k \in 0..Len(s)
    PROVE  /\ Rest(s, k) \in Seq(Statement) /\ Len(Rest(s, k)) = Len(s) - k
           /\ k < Len(s) => /\ Head(Rest(s, k)) = s[k + 1]
                            /\ Tail(Rest(s, k)) = Rest(s, k + 1)
           /\ k = Len(s) => Rest(s, k) = <<>>
<1> DEFINE r == Rest(s, k)
<1>1. r \in Seq(Statement) /\ Len(r) = Len(s) - k /\ \A i \in 1..Len(s) - k : r[i] = s[k + i]
    BY DEF Rest
<1>2. ASSUME k < Len(s) PROVE Tail(r) = Rest(s, k + 1) /\ Head(r) = s[k + 1]
    <2> DEFINE u == Rest(s, k + 1)
    <2>1. u \in Seq(Statement) /\ Len(u) = Len(s) - (k + 1)
          /\ \A i \in 1..Len(s) - (k + 1) : u[i] = s[k + 1 + i]
        BY <1>2 DEF Rest
    <2> HIDE DEF r, u
    <2>2. Head(r) = r[1] /\ 1 \in 1..Len(s) - k
        BY <1>1, <1>2
    <2>3. Tail(r) \in Seq(Statement) /\ Len(Tail(r)) = Len(u)
          /\ \A i \in 1..Len(u) : Tail(r)[i] = u[i]
        BY <1>1, <1>2, <2>1
    <2>4. Tail(r) = u
        BY <2>1, <2>3
    <2> QED  BY <1>1, <2>2, <2>4 DEF u
<1> HIDE DEF r
<1>3. k = Len(s) => r = <<>>
    BY <1>1
<1> QED  BY <1>1, <1>2, <1>3 DEF r

-----------------------------------------------------------------------------
(* Types.                                                                  *)
Metas == [file : [FileNames -> Contents], dir : SUBSET Folders]
Databases == [triggers : SUBSET Triggers, row : {"none", "pspemu", "psmobile"}, frames : SUBSET Frames]
StepNames == {"off", "home", "menu", "wipe", "wiped"} \cup ThemeSteps \cup StyleSteps

LEMMA AfterTyped ==
    ASSUME NEW s \in Statement, NEW d \in Databases
    PROVE  After(s, d) \in Databases
<1>1. s.do \in {"DROP", "CREATE", "INSERT", "DELETE"}
    BY DEF Statement
<1>2. s.do \in {"DROP", "CREATE"} => s.what \in Triggers
    BY DEF Statement
<1>3. s.do = "INSERT" => s.what \in {"psmobile", "pspemu"} \cup Frames
    BY DEF Statement
<1>4. s.do = "DELETE" => s.what \in {"row", "frames"}
    BY DEF Statement
<1>5. CASE s.do = "DROP"
    BY <1>2, <1>5 DEF After, Databases
<1>6. CASE s.do = "CREATE"
    BY <1>2, <1>6 DEF After, Databases
<1>7. CASE s.do = "INSERT"
    BY <1>3, <1>7 DEF After, Databases
<1>8. CASE s.do = "DELETE"
    BY <1>4, <1>8 DEF After, Databases
<1> QED  BY <1>1, <1>5, <1>6, <1>7, <1>8

LEMMA PageTyped == ASSUME NEW m \in Metas PROVE WithPage(m) \in Metas
BY DEF WithPage, Metas, FileNames, Contents, Folders

(* The faults only ever add up.                                            *)
LEMMA FaultsTyped ==
    ASSUME faults \in 0..MaxFaults, sound \in BOOLEAN, Fine \/ Wrong
    PROVE  faults' \in 0..MaxFaults /\ sound' \in BOOLEAN /\ faults' >= faults
<1>1. faults' \in 0..MaxFaults /\ faults' >= faults
    BY LiveAreaAssumption DEF Fine, Wrong
<1>2. sound' = sound \/ sound' = FALSE
    BY DEF Fine, Wrong
<1> QED  BY <1>1, <1>2, Zenon

LEMMA PutTyped ==
    ASSUME TypeOK, NEW file \in FileNames, NEW content \in Contents, NEW possible,
           NEW next \in StepNames, Put(file, content, possible, next)
    PROVE  TypeOK'
<1>1. meta \in Metas /\ db \in Databases /\ faults \in 0..MaxFaults /\ sound \in BOOLEAN
    BY DEF TypeOK, Metas, Databases
<1>2. meta' \in Metas
    BY <1>1 DEF Put, Metas, Contents
<1>3. step' \in StepNames
    BY DEF Put, Go, StepNames
<1>4. UNCHANGED <<db, update, script, open, menu, said>> /\ (Fine \/ Wrong)
    BY DEF Put, Go, Quiet
<1>5. faults' \in 0..MaxFaults /\ sound' \in BOOLEAN
    BY <1>1, <1>4, FaultsTyped
<1> QED  BY <1>2, <1>3, <1>4, <1>5 DEF TypeOK, Metas, StepNames

(* The steps that leave the style alone.                                   *)
LEMMA ThemeTyped ==
    ASSUME TypeOK,
           \/ OpenPage \/ InstallTheme \/ CheckDir \/ Backup \/ RemoveIcon
           \/ WriteIcon \/ WriteBg \/ WriteStartup \/ UninstallTheme \/ Wipe \/ Finish
    PROVE  TypeOK'
<1>1. meta \in Metas /\ db \in Databases /\ faults \in 0..MaxFaults /\ sound \in BOOLEAN
      /\ update \in BOOLEAN /\ step \in StepNames
    BY DEF TypeOK, Metas, Databases, StepNames
<1>2. CASE Backup \/ WriteIcon \/ WriteBg \/ WriteStartup
    <2>1. meta.file["icon0"] \in Contents /\ "theme" \in Contents
          /\ "icon0" \in FileNames /\ "icon0_" \in FileNames /\ "bg0" \in FileNames
          /\ "startup" \in FileNames
        BY <1>1 DEF Metas, FileNames, Contents
    <2>2. "rmicon" \in StepNames /\ "bg0" \in StepNames /\ "startup" \in StepNames /\ "done" \in StepNames
        BY DEF StepNames, ThemeSteps
    <2>3. CASE Backup
        BY <2>1, <2>2, <2>3, PutTyped, Zenon DEF Backup
    <2>4. CASE WriteIcon
        BY <2>1, <2>2, <2>4, PutTyped, Zenon DEF WriteIcon
    <2>5. CASE WriteBg
        BY <2>1, <2>2, <2>5, PutTyped, Zenon DEF WriteBg
    <2>6. CASE WriteStartup
        BY <2>1, <2>2, <2>6, PutTyped, Zenon DEF WriteStartup
    <2> QED  BY <1>2, <2>3, <2>4, <2>5, <2>6
<1>3. CASE OpenPage \/ CheckDir
    <2>1. meta' \in Metas
        BY <1>1, <1>3, PageTyped DEF OpenPage, CheckDir
    <2>2. step' \in StepNames /\ UNCHANGED <<db, update, script, open, menu, said, faults, sound>>
        BY <1>1, <1>3 DEF OpenPage, CheckDir, Go, Quiet, Fine, process, StepNames, ThemeSteps
    <2> QED  BY <2>1, <2>2 DEF TypeOK, Metas, StepNames
<1>4. CASE InstallTheme \/ UninstallTheme
    <2>1. step' \in StepNames /\ UNCHANGED <<meta, db, update, script, open, menu, said, faults, sound>>
        BY <1>4 DEF InstallTheme, UninstallTheme, Go, Quiet, Fine, StepNames, ThemeSteps
    <2> QED  BY <2>1 DEF TypeOK, StepNames
<1>5. CASE RemoveIcon
    <2>1. meta' \in Metas
        BY <1>1, <1>5 DEF RemoveIcon, Metas, Contents, FileNames
    <2>2. /\ step' \in StepNames /\ UNCHANGED <<db, update, script, open, menu, said>>
          /\ Fine \/ Wrong
        BY <1>5 DEF RemoveIcon, Go, Quiet, StepNames, ThemeSteps
    <2> QED  BY <1>1, <2>1, <2>2, FaultsTyped DEF TypeOK, Metas, StepNames
<1>6. CASE Wipe
    <2>1. meta' \in Metas
        BY <1>1, <1>6 DEF Wipe, Metas, Contents, FileNames
    <2>2. /\ step' \in StepNames /\ UNCHANGED <<db, update, script, open, menu, said>>
          /\ Fine \/ Wrong
        BY <1>6 DEF Wipe, Go, Quiet, process, StepNames, ThemeSteps
    <2> QED  BY <1>1, <2>1, <2>2, FaultsTyped DEF TypeOK, Metas, StepNames
<1>7. CASE Finish
    <2>1. update' \in BOOLEAN
        BY <1>1, <1>7 DEF Finish
    <2>2. step' \in StepNames /\ UNCHANGED <<meta, db, script, open, menu, said, faults, sound>>
        BY <1>7 DEF Finish, Go, Quiet, Fine, StepNames
    <2> QED  BY <2>1, <2>2 DEF TypeOK, StepNames
<1> QED  BY <1>2, <1>3, <1>4, <1>5, <1>6, <1>7

(* The steps of the style, of the process and of the device.               *)
LEMMA StyleTyped ==
    ASSUME TypeOK, AddStyle \/ RemoveStyle \/ Exec \/ Close \/ Mark
    PROVE  TypeOK'
<1>1. /\ meta \in Metas /\ db \in Databases /\ faults \in 0..MaxFaults /\ sound \in BOOLEAN
      /\ update \in BOOLEAN /\ open \in BOOLEAN /\ step \in StepNames /\ menu \subseteq Entries
      /\ script \in Seq(Statement) /\ Len(script) <= 10 /\ said \in {"nothing", "modified", "restored"}
    BY DEF TypeOK, Metas, Databases, StepNames
<1>2. ASSUME NEW entry \in Entries, NEW opened \in StepNames, NEW statements \in Seq(Statement),
             Len(statements) <= 10, NEW other \in Entries, NEW claim \in {"modified", "restored"},
             StartStyle(entry, opened, statements, other, claim)
      PROVE  TypeOK'
    <2>1. step' \in StepNames /\ menu' \subseteq Entries /\ said' \in {"nothing", "modified", "restored"}
          /\ UNCHANGED <<meta, db, update>> /\ (Fine \/ Wrong)
        BY <1>1, <1>2 DEF StartStyle, Swapped
    <2>2. script' \in Seq(Statement) /\ Len(script') <= 10
        BY <1>1, <1>2 DEF StartStyle
    <2>3. open' = TRUE \/ open' = open
        BY <1>2 DEF StartStyle
    <2>4. open' \in BOOLEAN
        BY <1>1, <2>3, Zenon
    <2> QED  BY <1>1, <2>1, <2>2, <2>4, FaultsTyped DEF TypeOK, Metas, Databases, StepNames
<1>3. CASE AddStyle \/ RemoveStyle
    <2>1. "sql_add" \in StepNames /\ "sql_remove" \in StepNames /\ 2 \in Entries /\ 3 \in Entries
        BY DEF StepNames, StyleSteps, Entries
    <2>2. Len(AddScript) <= 10 /\ Len(RemoveScript) <= 10
        BY AddParts, RemoveParts
    <2> QED  BY <1>2, <1>3, <2>1, <2>2, AddParts, RemoveParts DEF AddStyle, RemoveStyle
<1>4. CASE Exec
    <2>1. script # <<>> /\ script' = Tail(script) /\ UNCHANGED <<meta, menu, said, update>>
          /\ (Fine \/ Wrong) /\ step' \in {step, "home"}
        BY <1>4 DEF Exec
    <2>2. script' \in Seq(Statement) /\ Len(script') <= 10 /\ Head(script) \in Statement
        BY <1>1, <2>1
    <2>3. db' \in Databases
        BY <1>1, <1>4, <2>2, AfterTyped DEF Exec
    <2>4. open' = FALSE \/ open' = open
        BY <1>4 DEF Exec
    <2>5. open' \in BOOLEAN
        BY <1>1, <2>4, Zenon
    <2>6. step' \in StepNames
        BY <1>1, <2>1 DEF StepNames
    <2> QED  BY <1>1, <2>1, <2>2, <2>3, <2>5, <2>6, FaultsTyped DEF TypeOK, Metas, Databases, StepNames
<1>5. CASE Close
    <2>1. step' \in StepNames /\ open' = FALSE
          /\ UNCHANGED <<meta, db, script, menu, said, update, faults, sound>>
        BY <1>5 DEF Close, Fine, StepNames, StyleSteps
    <2> QED  BY <2>1 DEF TypeOK, StepNames
<1>6. CASE Mark
    <2>1. menu' \subseteq Entries /\ said' \in {"nothing", "modified", "restored"} /\ step' \in StepNames
          /\ UNCHANGED <<db, script, open, update>> /\ (Fine \/ Wrong)
        BY <1>1, <1>6 DEF Mark, Swapped, Entries, StepNames
    <2>2. meta' \in Metas
        BY <1>1, <1>6 DEF Mark, Metas, Folders
    <2> QED  BY <1>1, <2>1, <2>2, FaultsTyped DEF TypeOK, Metas, StepNames
<1> QED  BY <1>3, <1>4, <1>5, <1>6

LEMMA DeviceTyped ==
    ASSUME TypeOK, Launch \/ Exit \/ Rebuild \/ Boot \/ PowerLoss
    PROVE  TypeOK'
<1>1. /\ meta \in Metas /\ db \in Databases /\ faults \in 0..MaxFaults /\ sound \in BOOLEAN
    BY DEF TypeOK, Metas, Databases
<1>2. step' \in StepNames
    BY DEF Launch, Exit, Rebuild, Boot, PowerLoss, Go, StepNames
<1>3. CASE Launch
    <2>1. menu' \subseteq Entries /\ said' = "nothing" /\ script' = <<>> /\ open' = FALSE
          /\ UNCHANGED <<meta, db, update, faults, sound>>
        BY <1>3 DEF Launch, FoundEntries, Entries, Fine
    <2>2. script' \in Seq(Statement) /\ Len(script') <= 10
        BY <2>1
    <2> QED  BY <1>2, <2>1, <2>2 DEF TypeOK, StepNames
<1>4. CASE Exit
    BY <1>2, <1>4 DEF Exit, Go, Quiet, Fine, TypeOK, StepNames
<1>5. CASE Rebuild
    <2>1. db' \in Databases
        BY <1>5 DEF Rebuild, Databases
    <2>2. sound' = TRUE /\ UNCHANGED <<meta, update, faults, script, open, menu, said>>
        BY <1>5 DEF Rebuild, Go, Quiet
    <2> QED  BY <1>2, <2>1, <2>2 DEF TypeOK, Databases, StepNames
<1>6. CASE Boot
    <2>1. meta' \in Metas
        BY <1>1, <1>6 DEF Boot, Metas, FileNames, Contents
    <2>2. update' = FALSE /\ UNCHANGED <<db, faults, sound, script, open, menu, said>>
        BY <1>6 DEF Boot, Go, Quiet, Fine
    <2> QED  BY <1>2, <2>1, <2>2 DEF TypeOK, Metas, StepNames
<1>7. CASE PowerLoss
    <2>1. UNCHANGED <<meta, db, update, script, open, menu, said>> /\ Wrong
        BY <1>7 DEF PowerLoss, Go, Quiet
    <2> QED  BY <1>1, <1>2, <2>1, FaultsTyped DEF TypeOK, StepNames
<1> QED  BY <1>3, <1>4, <1>5, <1>6, <1>7

LEMMA InitTyped == Init => TypeOK
<1> SUFFICES ASSUME Init PROVE TypeOK
    OBVIOUS
<1>1. meta \in Metas
    BY DEF Init, Metas, FileNames, Contents, Folders
<1>2. db \in Databases
    BY DEF Init, Databases
<1>3. script \in Seq(Statement) /\ Len(script) <= 10
    BY DEF Init
<1>4. faults \in 0..MaxFaults
    BY LiveAreaAssumption DEF Init
<1>5. step \in StepNames /\ menu \subseteq Entries /\ said \in {"nothing", "modified", "restored"}
      /\ open = FALSE /\ update = FALSE /\ sound = TRUE
    BY DEF Init, StepNames
<1> QED  BY <1>1, <1>2, <1>3, <1>4, <1>5 DEF TypeOK, Metas, Databases, StepNames

LEMMA TypeInductive == TypeOK /\ [Next]_vars => TypeOK'
<1> SUFFICES ASSUME TypeOK, [Next]_vars PROVE TypeOK'
    OBVIOUS
<1>1. CASE UNCHANGED vars
    BY <1>1 DEF vars, process, TypeOK
<1> QED  BY <1>1, ThemeTyped, StyleTyped, DeviceTyped DEF Next

(* The files of the page, app.db and the script keep their types, whatever *)
(* fails and whatever is left when the power goes.                         *)
THEOREM TypeCorrect == Spec => []TypeOK
<1> QED  BY InitTyped, TypeInductive, PTL DEF Spec

-----------------------------------------------------------------------------
(* The style, as long as nothing fails after a rebuild of app.db.          *)

(* app.db after k statements of a script, from a settled one.              *)
AfterAdd(k, d) ==
    /\ d.triggers = IF k = 0 \/ k = 10 THEN Triggers
                    ELSE IF k = 1 THEN {"frame_del_item"}
                    ELSE IF k = 9 THEN {"del_img"} ELSE {}
    /\ k >= 4 => d.row = "psmobile"
    /\ k >= 5 => d.frames = IF k = 5 THEN {} ELSE IF k = 6 THEN {"frame2"}
                            ELSE IF k = 7 THEN {"frame2", "frame3"} ELSE Frames
AfterRemove(k, d) ==
    /\ d.triggers = IF k = 0 \/ k = 7 THEN Triggers
                    ELSE IF k = 1 THEN {"frame_del_item"}
                    ELSE IF k = 6 THEN {"del_img"} ELSE {}
    /\ k >= 4 => d.row = "pspemu"
    /\ k >= 5 => d.frames = {}

Adding == \E k \in 0..10 : script = Rest(AddScript, k) /\ AfterAdd(k, db)
Removing == \E k \in 0..7 : script = Rest(RemoveScript, k) /\ AfterRemove(k, db)

Settled ==
    /\ step = "sql_add" => open /\ Adding
    /\ step = "sql_remove" => open /\ Removing
    /\ step \notin {"sql_add", "sql_remove"} => Styled \/ Plain
    /\ step = "mark_add" => Styled
    /\ step = "mark_remove" => Plain
    /\ step = "menu" => Claimed
StyleInv == sound => Settled

(* What each statement does to the three parts of app.db.                  *)
LEMMA Effects ==
    ASSUME NEW d \in Databases
    PROVE  /\ \A t \in Triggers :
                /\ Fails(DoIt("DROP", t), d) <=> t \notin d.triggers
                /\ Fails(DoIt("CREATE", t), d) <=> t \in d.triggers
                /\ After(DoIt("DROP", t), d) = [d EXCEPT !.triggers = @ \ {t}]
                /\ After(DoIt("CREATE", t), d) = [d EXCEPT !.triggers = @ \cup {t}]
           /\ \A what : ~ Fails(DoIt("INSERT", what), d) /\ ~ Fails(DoIt("DELETE", what), d)
           /\ After(DoIt("DELETE", "row"), d) = [d EXCEPT !.row = "none"]
           /\ After(DoIt("DELETE", "frames"), d) = [d EXCEPT !.frames = {}]
           /\ \A f \in Frames : After(DoIt("INSERT", f), d) = [d EXCEPT !.frames = @ \cup {f}]
           /\ \A what \in {"psmobile", "pspemu"} :
                After(DoIt("INSERT", what), d) = [d EXCEPT !.row = what]
BY DEF DoIt, Fails, After, Frames

(* No statement of a script is refused, and each takes app.db on.          *)
LEMMA AddGoesOn ==
    ASSUME NEW d \in Databases, NEW k \in 0..9, AfterAdd(k, d)
    PROVE  ~ Fails(AddScript[k + 1], d) /\ AfterAdd(k + 1, After(AddScript[k + 1], d))
<1> DEFINE e == After(AddScript[k + 1], d)
<1>1. CASE k = 0
    <2>1. AddScript[k + 1] = DoIt("DROP", "del_img")
        BY <1>1, AddParts
    <2>2. /\ e = [d EXCEPT !.triggers = d.triggers \ {"del_img"}]
          /\ Fails(AddScript[k + 1], d) <=> "del_img" \notin d.triggers
        BY <2>1, Effects DEF Triggers
    <2> HIDE DEF e
    <2>3. /\ e.triggers = d.triggers \ {"del_img"}
          /\ e.row = d.row /\ e.frames = d.frames
        BY <2>2 DEF Databases
    <2>4. ~ Fails(AddScript[k + 1], d) /\ AfterAdd(k + 1, e)
        BY <1>1, <2>2, <2>3 DEF AfterAdd, Triggers, Frames
    <2> QED  BY <2>4 DEF e
<1>2. CASE k = 1
    <2>1. AddScript[k + 1] = DoIt("DROP", "frame_del_item")
        BY <1>2, AddParts
    <2>2. /\ e = [d EXCEPT !.triggers = d.triggers \ {"frame_del_item"}]
          /\ Fails(AddScript[k + 1], d) <=> "frame_del_item" \notin d.triggers
        BY <2>1, Effects DEF Triggers
    <2> HIDE DEF e
    <2>3. /\ e.triggers = d.triggers \ {"frame_del_item"}
          /\ e.row = d.row /\ e.frames = d.frames
        BY <2>2 DEF Databases
    <2>4. ~ Fails(AddScript[k + 1], d) /\ AfterAdd(k + 1, e)
        BY <1>2, <2>2, <2>3 DEF AfterAdd, Triggers, Frames
    <2> QED  BY <2>4 DEF e
<1>3. CASE k = 2
    <2>1. AddScript[k + 1] = DoIt("DELETE", "row")
        BY <1>3, AddParts
    <2>2. e = [d EXCEPT !.row = "none"] /\ ~ Fails(AddScript[k + 1], d)
        BY <2>1, Effects DEF Frames
    <2> HIDE DEF e
    <2>3. /\ e.triggers = d.triggers
          /\ e.row = "none" /\ e.frames = d.frames
        BY <2>2 DEF Databases
    <2>4. ~ Fails(AddScript[k + 1], d) /\ AfterAdd(k + 1, e)
        BY <1>3, <2>2, <2>3 DEF AfterAdd, Triggers, Frames
    <2> QED  BY <2>4 DEF e
<1>4. CASE k = 3
    <2>1. AddScript[k + 1] = DoIt("INSERT", "psmobile")
        BY <1>4, AddParts
    <2>2. e = [d EXCEPT !.row = "psmobile"] /\ ~ Fails(AddScript[k + 1], d)
        BY <2>1, Effects DEF Frames
    <2> HIDE DEF e
    <2>3. /\ e.triggers = d.triggers
          /\ e.row = "psmobile" /\ e.frames = d.frames
        BY <2>2 DEF Databases
    <2>4. ~ Fails(AddScript[k + 1], d) /\ AfterAdd(k + 1, e)
        BY <1>4, <2>2, <2>3 DEF AfterAdd, Triggers, Frames
    <2> QED  BY <2>4 DEF e
<1>5. CASE k = 4
    <2>1. AddScript[k + 1] = DoIt("DELETE", "frames")
        BY <1>5, AddParts
    <2>2. e = [d EXCEPT !.frames = {}] /\ ~ Fails(AddScript[k + 1], d)
        BY <2>1, Effects DEF Frames
    <2> HIDE DEF e
    <2>3. /\ e.triggers = d.triggers
          /\ e.row = d.row /\ e.frames = {}
        BY <2>2 DEF Databases
    <2>4. ~ Fails(AddScript[k + 1], d) /\ AfterAdd(k + 1, e)
        BY <1>5, <2>2, <2>3 DEF AfterAdd, Triggers, Frames
    <2> QED  BY <2>4 DEF e
<1>6. CASE k = 5
    <2>1. AddScript[k + 1] = DoIt("INSERT", "frame2")
        BY <1>6, AddParts
    <2>2. e = [d EXCEPT !.frames = d.frames \cup {"frame2"}] /\ ~ Fails(AddScript[k + 1], d)
        BY <2>1, Effects DEF Frames
    <2> HIDE DEF e
    <2>3. /\ e.triggers = d.triggers
          /\ e.row = d.row /\ e.frames = d.frames \cup {"frame2"}
        BY <2>2 DEF Databases
    <2>4. ~ Fails(AddScript[k + 1], d) /\ AfterAdd(k + 1, e)
        BY <1>6, <2>2, <2>3 DEF AfterAdd, Triggers, Frames
    <2> QED  BY <2>4 DEF e
<1>7. CASE k = 6
    <2>1. AddScript[k + 1] = DoIt("INSERT", "frame3")
        BY <1>7, AddParts
    <2>2. e = [d EXCEPT !.frames = d.frames \cup {"frame3"}] /\ ~ Fails(AddScript[k + 1], d)
        BY <2>1, Effects DEF Frames
    <2> HIDE DEF e
    <2>3. /\ e.triggers = d.triggers
          /\ e.row = d.row /\ e.frames = d.frames \cup {"frame3"}
        BY <2>2 DEF Databases
    <2>4. ~ Fails(AddScript[k + 1], d) /\ AfterAdd(k + 1, e)
        BY <1>7, <2>2, <2>3 DEF AfterAdd, Triggers, Frames
    <2> QED  BY <2>4 DEF e
<1>8. CASE k = 7
    <2>1. AddScript[k + 1] = DoIt("INSERT", "frame4")
        BY <1>8, AddParts
    <2>2. e = [d EXCEPT !.frames = d.frames \cup {"frame4"}] /\ ~ Fails(AddScript[k + 1], d)
        BY <2>1, Effects DEF Frames
    <2> HIDE DEF e
    <2>3. /\ e.triggers = d.triggers
          /\ e.row = d.row /\ e.frames = d.frames \cup {"frame4"}
        BY <2>2 DEF Databases
    <2>4. ~ Fails(AddScript[k + 1], d) /\ AfterAdd(k + 1, e)
        BY <1>8, <2>2, <2>3 DEF AfterAdd, Triggers, Frames
    <2> QED  BY <2>4 DEF e
<1>9. CASE k = 8
    <2>1. AddScript[k + 1] = DoIt("CREATE", "del_img")
        BY <1>9, AddParts
    <2>2. /\ e = [d EXCEPT !.triggers = d.triggers \cup {"del_img"}]
          /\ Fails(AddScript[k + 1], d) <=> "del_img" \in d.triggers
        BY <2>1, Effects DEF Triggers
    <2> HIDE DEF e
    <2>3. /\ e.triggers = d.triggers \cup {"del_img"}
          /\ e.row = d.row /\ e.frames = d.frames
        BY <2>2 DEF Databases
    <2>4. ~ Fails(AddScript[k + 1], d) /\ AfterAdd(k + 1, e)
        BY <1>9, <2>2, <2>3 DEF AfterAdd, Triggers, Frames
    <2> QED  BY <2>4 DEF e
<1>10. CASE k = 9
    <2>1. AddScript[k + 1] = DoIt("CREATE", "frame_del_item")
        BY <1>10, AddParts
    <2>2. /\ e = [d EXCEPT !.triggers = d.triggers \cup {"frame_del_item"}]
          /\ Fails(AddScript[k + 1], d) <=> "frame_del_item" \in d.triggers
        BY <2>1, Effects DEF Triggers
    <2> HIDE DEF e
    <2>3. /\ e.triggers = d.triggers \cup {"frame_del_item"}
          /\ e.row = d.row /\ e.frames = d.frames
        BY <2>2 DEF Databases
    <2>4. ~ Fails(AddScript[k + 1], d) /\ AfterAdd(k + 1, e)
        BY <1>10, <2>2, <2>3 DEF AfterAdd, Triggers, Frames
    <2> QED  BY <2>4 DEF e
<1> QED  BY <1>1, <1>2, <1>3, <1>4, <1>5, <1>6, <1>7, <1>8, <1>9, <1>10

LEMMA RemoveGoesOn ==
    ASSUME NEW d \in Databases, NEW k \in 0..6, AfterRemove(k, d)
    PROVE  ~ Fails(RemoveScript[k + 1], d) /\ AfterRemove(k + 1, After(RemoveScript[k + 1], d))
<1> DEFINE e == After(RemoveScript[k + 1], d)
<1>1. CASE k = 0
    <2>1. RemoveScript[k + 1] = DoIt("DROP", "del_img")
        BY <1>1, RemoveParts
    <2>2. /\ e = [d EXCEPT !.triggers = d.triggers \ {"del_img"}]
          /\ Fails(RemoveScript[k + 1], d) <=> "del_img" \notin d.triggers
        BY <2>1, Effects DEF Triggers
    <2> HIDE DEF e
    <2>3. /\ e.triggers = d.triggers \ {"del_img"}
          /\ e.row = d.row /\ e.frames = d.frames
        BY <2>2 DEF Databases
    <2>4. ~ Fails(RemoveScript[k + 1], d) /\ AfterRemove(k + 1, e)
        BY <1>1, <2>2, <2>3 DEF AfterRemove, Triggers, Frames
    <2> QED  BY <2>4 DEF e
<1>2. CASE k = 1
    <2>1. RemoveScript[k + 1] = DoIt("DROP", "frame_del_item")
        BY <1>2, RemoveParts
    <2>2. /\ e = [d EXCEPT !.triggers = d.triggers \ {"frame_del_item"}]
          /\ Fails(RemoveScript[k + 1], d) <=> "frame_del_item" \notin d.triggers
        BY <2>1, Effects DEF Triggers
    <2> HIDE DEF e
    <2>3. /\ e.triggers = d.triggers \ {"frame_del_item"}
          /\ e.row = d.row /\ e.frames = d.frames
        BY <2>2 DEF Databases
    <2>4. ~ Fails(RemoveScript[k + 1], d) /\ AfterRemove(k + 1, e)
        BY <1>2, <2>2, <2>3 DEF AfterRemove, Triggers, Frames
    <2> QED  BY <2>4 DEF e
<1>3. CASE k = 2
    <2>1. RemoveScript[k + 1] = DoIt("DELETE", "row")
        BY <1>3, RemoveParts
    <2>2. e = [d EXCEPT !.row = "none"] /\ ~ Fails(RemoveScript[k + 1], d)
        BY <2>1, Effects DEF Frames
    <2> HIDE DEF e
    <2>3. /\ e.triggers = d.triggers
          /\ e.row = "none" /\ e.frames = d.frames
        BY <2>2 DEF Databases
    <2>4. ~ Fails(RemoveScript[k + 1], d) /\ AfterRemove(k + 1, e)
        BY <1>3, <2>2, <2>3 DEF AfterRemove, Triggers, Frames
    <2> QED  BY <2>4 DEF e
<1>4. CASE k = 3
    <2>1. RemoveScript[k + 1] = DoIt("INSERT", "pspemu")
        BY <1>4, RemoveParts
    <2>2. e = [d EXCEPT !.row = "pspemu"] /\ ~ Fails(RemoveScript[k + 1], d)
        BY <2>1, Effects DEF Frames
    <2> HIDE DEF e
    <2>3. /\ e.triggers = d.triggers
          /\ e.row = "pspemu" /\ e.frames = d.frames
        BY <2>2 DEF Databases
    <2>4. ~ Fails(RemoveScript[k + 1], d) /\ AfterRemove(k + 1, e)
        BY <1>4, <2>2, <2>3 DEF AfterRemove, Triggers, Frames
    <2> QED  BY <2>4 DEF e
<1>5. CASE k = 4
    <2>1. RemoveScript[k + 1] = DoIt("DELETE", "frames")
        BY <1>5, RemoveParts
    <2>2. e = [d EXCEPT !.frames = {}] /\ ~ Fails(RemoveScript[k + 1], d)
        BY <2>1, Effects DEF Frames
    <2> HIDE DEF e
    <2>3. /\ e.triggers = d.triggers
          /\ e.row = d.row /\ e.frames = {}
        BY <2>2 DEF Databases
    <2>4. ~ Fails(RemoveScript[k + 1], d) /\ AfterRemove(k + 1, e)
        BY <1>5, <2>2, <2>3 DEF AfterRemove, Triggers, Frames
    <2> QED  BY <2>4 DEF e
<1>6. CASE k = 5
    <2>1. RemoveScript[k + 1] = DoIt("CREATE", "del_img")
        BY <1>6, RemoveParts
    <2>2. /\ e = [d EXCEPT !.triggers = d.triggers \cup {"del_img"}]
          /\ Fails(RemoveScript[k + 1], d) <=> "del_img" \in d.triggers
        BY <2>1, Effects DEF Triggers
    <2> HIDE DEF e
    <2>3. /\ e.triggers = d.triggers \cup {"del_img"}
          /\ e.row = d.row /\ e.frames = d.frames
        BY <2>2 DEF Databases
    <2>4. ~ Fails(RemoveScript[k + 1], d) /\ AfterRemove(k + 1, e)
        BY <1>6, <2>2, <2>3 DEF AfterRemove, Triggers, Frames
    <2> QED  BY <2>4 DEF e
<1>7. CASE k = 6
    <2>1. RemoveScript[k + 1] = DoIt("CREATE", "frame_del_item")
        BY <1>7, RemoveParts
    <2>2. /\ e = [d EXCEPT !.triggers = d.triggers \cup {"frame_del_item"}]
          /\ Fails(RemoveScript[k + 1], d) <=> "frame_del_item" \in d.triggers
        BY <2>1, Effects DEF Triggers
    <2> HIDE DEF e
    <2>3. /\ e.triggers = d.triggers \cup {"frame_del_item"}
          /\ e.row = d.row /\ e.frames = d.frames
        BY <2>2 DEF Databases
    <2>4. ~ Fails(RemoveScript[k + 1], d) /\ AfterRemove(k + 1, e)
        BY <1>7, <2>2, <2>3 DEF AfterRemove, Triggers, Frames
    <2> QED  BY <2>4 DEF e
<1> QED  BY <1>1, <1>2, <1>3, <1>4, <1>5, <1>6, <1>7

(* A fault ends what is claimed, until app.db is rebuilt.                  *)
LEMMA WrongUnsound == Wrong => ~ sound'
BY Zenon DEF Wrong

(* A statement of a script.                                                *)
LEMMA ExecKeeps == TypeOK /\ StyleInv /\ Exec => StyleInv'
<1> SUFFICES ASSUME TypeOK, StyleInv, Exec, sound' PROVE Settled'
    BY DEF StyleInv
<1>1. Fine
    BY WrongUnsound DEF Exec
<1>2. sound /\ Settled
    BY <1>1, Zenon DEF Fine, StyleInv
<1>3. db \in Databases /\ step \in {"sql_add", "sql_remove"} /\ script # <<>> /\ script' = Tail(script)
    BY DEF Exec, TypeOK, Databases
<1>4. open
    BY <1>2, <1>3 DEF Settled
<1>5. ASSUME ~ Fails(Head(script), db)
      PROVE  open' /\ db' = After(Head(script), db) /\ step' = step
    <2>1. open' = open /\ db' = After(Head(script), db) /\ step' = step
        BY <1>1, <1>4, <1>5, WrongUnsound DEF Exec
    <2> QED  BY <1>4, <2>1, Zenon
<1>6. CASE step = "sql_add"
    <2>1. PICK k \in 0..10 : script = Rest(AddScript, k) /\ AfterAdd(k, db)
        BY <1>2, <1>6 DEF Settled, Adding
    <2>2. k # 10
        BY <1>3, <2>1, AddParts, RestTyped
    <2>3. Head(script) = AddScript[k + 1] /\ Tail(script) = Rest(AddScript, k + 1) /\ k \in 0..9
        <3>1. /\ AddScript \in Seq(Statement)
              /\ k \in 0..Len(AddScript) /\ k < Len(AddScript) /\ k \in 0..9
            BY <2>2, AddParts
        <3>2. /\ Head(Rest(AddScript, k)) = AddScript[k + 1]
              /\ Tail(Rest(AddScript, k)) = Rest(AddScript, k + 1)
            BY <3>1, RestTyped, Zenon
        <3> QED  BY <2>1, <3>1, <3>2, Zenon
    <2>4. ~ Fails(AddScript[k + 1], db) /\ AfterAdd(k + 1, After(AddScript[k + 1], db))
        BY <1>3, <2>1, <2>3, AddGoesOn
    <2>5. open' /\ step' = "sql_add" /\ AfterAdd(k + 1, db') /\ k + 1 \in 0..10
        BY <1>5, <1>6, <2>3, <2>4
    <2> QED  BY <1>3, <2>3, <2>5 DEF Settled, Adding
<1>7. CASE step = "sql_remove"
    <2>1. PICK k \in 0..7 : script = Rest(RemoveScript, k) /\ AfterRemove(k, db)
        BY <1>2, <1>7 DEF Settled, Removing
    <2>2. k # 7
        BY <1>3, <2>1, RemoveParts, RestTyped
    <2>3. Head(script) = RemoveScript[k + 1] /\ Tail(script) = Rest(RemoveScript, k + 1) /\ k \in 0..6
        <3>1. /\ RemoveScript \in Seq(Statement)
              /\ k \in 0..Len(RemoveScript) /\ k < Len(RemoveScript) /\ k \in 0..6
            BY <2>2, RemoveParts
        <3>2. /\ Head(Rest(RemoveScript, k)) = RemoveScript[k + 1]
              /\ Tail(Rest(RemoveScript, k)) = Rest(RemoveScript, k + 1)
            BY <3>1, RestTyped, Zenon
        <3> QED  BY <2>1, <3>1, <3>2, Zenon
    <2>4. ~ Fails(RemoveScript[k + 1], db) /\ AfterRemove(k + 1, After(RemoveScript[k + 1], db))
        BY <1>3, <2>1, <2>3, RemoveGoesOn
    <2>5. open' /\ step' = "sql_remove" /\ AfterRemove(k + 1, db') /\ k + 1 \in 0..7
        BY <1>5, <1>7, <2>3, <2>4
    <2> QED  BY <1>3, <2>3, <2>5 DEF Settled, Removing
<1> QED  BY <1>3, <1>6, <1>7

(* The script is done.                                                     *)
LEMMA CloseKeeps == TypeOK /\ StyleInv /\ Close => StyleInv'
<1> SUFFICES ASSUME TypeOK, StyleInv, Close, sound' PROVE Settled'
    BY DEF StyleInv
<1>1. /\ step \in {"sql_add", "sql_remove"} /\ script = <<>>
      /\ UNCHANGED <<meta, db, script, said, sound>>
    BY DEF Close, Fine
<1>2. sound /\ Settled
    BY <1>1, Zenon DEF StyleInv
<1>3. open
    BY <1>1, <1>2 DEF Settled
<1>4. step' = IF step = "sql_add" THEN "mark_add" ELSE "mark_remove"
    BY <1>3 DEF Close
<1>5. CASE step = "sql_add"
    <2>1. PICK k \in 0..10 : script = Rest(AddScript, k) /\ AfterAdd(k, db)
        BY <1>2, <1>5 DEF Settled, Adding
    <2>2. Len(script) = 0 /\ Len(script) = 10 - k
        BY <1>1, <2>1, AddParts, RestTyped
    <2>3. k = 10
        BY <2>2
    <2>4. Styled
        BY <2>1, <2>3 DEF AfterAdd, Styled
    <2>5. Styled' /\ step' = "mark_add"
        BY <1>1, <1>4, <1>5, <2>4 DEF Styled
    <2> QED  BY <2>5 DEF Settled
<1>6. CASE step = "sql_remove"
    <2>1. PICK k \in 0..7 : script = Rest(RemoveScript, k) /\ AfterRemove(k, db)
        BY <1>2, <1>6 DEF Settled, Removing
    <2>2. Len(script) = 0 /\ Len(script) = 7 - k
        BY <1>1, <2>1, RemoveParts, RestTyped
    <2>3. k = 7
        BY <2>2
    <2>4. Plain
        BY <2>1, <2>3 DEF AfterRemove, Plain
    <2>5. Plain' /\ step' = "mark_remove"
        BY <1>1, <1>4, <1>6, <2>4 DEF Plain
    <2> QED  BY <2>5 DEF Settled
<1> QED  BY <1>1, <1>5, <1>6

(* A script begins, with app.db settled.                                   *)
LEMMA StartKeeps == TypeOK /\ StyleInv /\ (AddStyle \/ RemoveStyle) => StyleInv'
<1> SUFFICES ASSUME TypeOK, StyleInv, AddStyle \/ RemoveStyle, sound' PROVE Settled'
    BY DEF StyleInv
<1>1. /\ Fine /\ step = "menu" /\ db' = db /\ open' = TRUE
      /\ \/ step' = "sql_add" /\ script' = AddScript
         \/ step' = "sql_remove" /\ script' = RemoveScript
    BY WrongUnsound DEF AddStyle, RemoveStyle, StartStyle
<1>2. Settled /\ open'
    BY <1>1, Zenon DEF Fine, StyleInv
<1>3. db.triggers = Triggers
    BY <1>1, <1>2 DEF Settled, Styled, Plain
<1>4. AddScript = Rest(AddScript, 0) /\ RemoveScript = Rest(RemoveScript, 0)
    BY AddParts, RemoveParts DEF Rest
<1>5. AfterAdd(0, db') /\ AfterRemove(0, db')
    BY <1>1, <1>3 DEF AfterAdd, AfterRemove
<1> QED  BY <1>1, <1>2, <1>4, <1>5 DEF Settled, Adding, Removing

(* The indicator is set, and the message told.                             *)
LEMMA MarkKeeps == TypeOK /\ StyleInv /\ Mark => StyleInv'
<1> SUFFICES ASSUME TypeOK, StyleInv, Mark, sound' PROVE Settled'
    BY DEF StyleInv
<1>1. Fine /\ step \in {"mark_add", "mark_remove"} /\ step' = "menu" /\ db' = db
    BY WrongUnsound DEF Mark
<1>2. Settled
    BY <1>1, Zenon DEF Fine, StyleInv
<1>3. CASE step = "mark_add"
    <2>1. Styled'
        BY <1>1, <1>2, <1>3 DEF Settled, Styled
    <2>2. said' = "modified" /\ meta' = [meta EXCEPT !.dir = @ \cup {"temp"}]
        BY <1>3, WrongUnsound DEF Mark
    <2>3. "temp" \in meta'.dir
        BY <2>2 DEF TypeOK
    <2> QED  BY <1>1, <2>1, <2>2, <2>3 DEF Settled, Claimed
<1>4. CASE step = "mark_remove"
    <2>1. Plain'
        BY <1>1, <1>2, <1>4 DEF Settled, Plain
    <2>2. said' = "restored" /\ meta' = [meta EXCEPT !.dir = @ \ {"temp"}]
        BY <1>4, WrongUnsound DEF Mark
    <2>3. "temp" \notin meta'.dir
        BY <2>2 DEF TypeOK
    <2> QED  BY <1>1, <2>1, <2>2, <2>3 DEF Settled, Claimed
<1> QED  BY <1>1, <1>3, <1>4

(* The other steps leave app.db alone, or rebuild it.                      *)
LEMMA StyleInductive == TypeOK /\ StyleInv /\ [Next]_vars => StyleInv'
<1> SUFFICES ASSUME TypeOK, StyleInv, [Next]_vars PROVE StyleInv'
    OBVIOUS
<1>1. CASE AddStyle \/ RemoveStyle
    BY <1>1, StartKeeps
<1>2. CASE Exec
    BY <1>2, ExecKeeps
<1>3. CASE Close
    BY <1>3, CloseKeeps
<1>4. CASE Mark
    BY <1>4, MarkKeeps
<1>5. CASE Rebuild
    <2>1. step' = "off" /\ db' = [triggers |-> Triggers, row |-> "pspemu", frames |-> {}]
        BY <1>5 DEF Rebuild, Go
    <2>2. Plain'
        BY <2>1 DEF Plain
    <2> QED  BY <2>1, <2>2 DEF StyleInv, Settled
<1>6. CASE \/ OpenPage \/ InstallTheme \/ CheckDir \/ Backup \/ RemoveIcon \/ PowerLoss
           \/ WriteIcon \/ WriteBg \/ WriteStartup \/ UninstallTheme \/ Wipe \/ Finish \/ Exit \/ Boot
    <2> SUFFICES ASSUME sound' PROVE Settled'
        BY DEF StyleInv
    <2>1. /\ Fine /\ db' = db /\ step \notin {"sql_add", "sql_remove"}
          /\ step' \notin {"menu", "sql_add", "sql_remove", "mark_add", "mark_remove"}
        BY <1>6, WrongUnsound DEF OpenPage, InstallTheme, CheckDir, Backup, RemoveIcon, PowerLoss,
            WriteIcon, WriteBg, WriteStartup, UninstallTheme, Wipe, Finish, Exit, Boot, Put, Go, process
    <2>2. Settled
        BY <2>1, Zenon DEF Fine, StyleInv
    <2>3. (Styled \/ Plain)'
        BY <2>1, <2>2 DEF Settled, Styled, Plain
    <2> QED  BY <2>1, <2>3 DEF Settled
<1>7. CASE Launch
    <2> SUFFICES ASSUME sound' PROVE Settled'
        BY DEF StyleInv
    <2>1. Fine /\ db' = db /\ step = "home" /\ step' = "menu" /\ said' = "nothing"
        BY <1>7 DEF Launch
    <2>2. Settled
        BY <2>1, Zenon DEF Fine, StyleInv
    <2>3. (Styled \/ Plain)'
        BY <2>1, <2>2 DEF Settled, Styled, Plain
    <2> QED  BY <2>1, <2>3 DEF Settled, Claimed
<1>8. CASE UNCHANGED vars
    BY <1>8 DEF vars, process, StyleInv, Settled, Styled, Plain, Claimed, Adding, Removing
<1> QED  BY <1>1, <1>2, <1>3, <1>4, <1>5, <1>6, <1>7, <1>8 DEF Next

LEMMA StyleInvariant == Spec => [](TypeOK /\ StyleInv)
<1>1. Init => TypeOK /\ StyleInv
    <2>1. Init => StyleInv
        BY DEF Init, StyleInv, Settled, Plain, Claimed
    <2> QED  BY <2>1, InitTyped
<1>2. TypeOK /\ StyleInv /\ [Next]_vars => (TypeOK /\ StyleInv)'
    BY TypeInductive, StyleInductive
<1> QED  BY <1>1, <1>2, PTL DEF Spec

(* However often styles were added and removed, and whatever failed before *)
(* the last rebuild of app.db: what the messages of the style say is so    *)
(* (main.c: add_livearea_style, remove_livearea_style).                    *)
THEOREM StyleMessagesAreTrue == Spec => []SuccessIsTrueIfSound
<1>1. StyleInv => SuccessIsTrueIfSound
    BY DEF StyleInv, Settled, SuccessIsTrueIfSound
<1> QED  BY <1>1, StyleInvariant, PTL

-----------------------------------------------------------------------------
(* The page, whatever fails.                                               *)

(* A script whose database is still open has dropped both triggers before  *)
(* it changes the page, and has done the whole of it before it creates one.*)
Begun(k) == k = 0 \/ (k = 1 /\ "del_img" \notin db.triggers)
PageInv ==
    /\ HalfStyledLostTriggers
    /\ open /\ step = "sql_add" =>
         \E k \in 0..10 : script = Rest(AddScript, k) /\ (Begun(k) \/ (k >= 2 /\ AfterAdd(k, db)))
    /\ open /\ step = "sql_remove" =>
         \E k \in 0..7 : script = Rest(RemoveScript, k) /\ (Begun(k) \/ (k >= 2 /\ AfterRemove(k, db)))

(* The first two statements of both.                                       *)
LEMMA DropsGoOn ==
    ASSUME db \in Databases, NEW k \in {0, 1}, Begun(k), NEW s,
           s = DoIt("DROP", IF k = 0 THEN "del_img" ELSE "frame_del_item"),
           ~ Fails(s, db), db' = After(s, db)
    PROVE  /\ k = 0 => "del_img" \notin db'.triggers
           /\ k = 1 => db'.triggers = {}
           /\ HalfStyledLostTriggers => HalfStyledLostTriggers'
<1>1. PICK t \in Triggers : /\ s = DoIt("DROP", t)
                           /\ t = IF k = 0 THEN "del_img" ELSE "frame_del_item"
    BY DEF Triggers
<1>2. db' = [db EXCEPT !.triggers = @ \ {t}]
    <2>1. After(DoIt("DROP", t), db) = [db EXCEPT !.triggers = @ \ {t}]
        BY <1>1, Effects
    <2> QED  BY <1>1, <2>1, Zenon
<1>3. /\ db'.triggers = db.triggers \ {t} /\ db.triggers \subseteq Triggers
      /\ db'.row = db.row /\ db'.frames = db.frames
    BY <1>2 DEF Databases
<1> QED  BY <1>1, <1>3 DEF Begun, Triggers, HalfStyledLostTriggers, WholePage

(* sqlite3_exec of a statement that goes through.                          *)
LEMMA PageExec ==
    ASSUME TypeOK, PageInv, open, open', UNCHANGED step, script # <<>>, script' = Tail(script),
           step \in {"sql_add", "sql_remove"}, ~ Fails(Head(script), db), db' = After(Head(script), db)
    PROVE  PageInv'
<1>0. db \in Databases
    BY DEF TypeOK, Databases
<1>1. CASE step = "sql_add"
    <2>1. PICK k \in 0..10 : /\ script = Rest(AddScript, k)
                             /\ Begun(k) \/ (k >= 2 /\ AfterAdd(k, db))
        BY <1>1 DEF PageInv
    <2>2. AddScript \in Seq(Statement) /\ Len(AddScript) = 10 /\ k \in 0..Len(AddScript)
        BY AddParts
    <2>3. k < 10
        <3>1. k = Len(AddScript) => Rest(AddScript, k) = <<>>
            BY <2>2, RestTyped, Zenon
        <3> QED  BY <2>1, <2>2, <3>1
    <2>4. Head(script) = AddScript[k + 1] /\ script' = Rest(AddScript, k + 1) /\ k + 1 \in 0..10
        <3>1. k < Len(AddScript)
            BY <2>2, <2>3
        <3>2. /\ Head(Rest(AddScript, k)) = AddScript[k + 1]
              /\ Tail(Rest(AddScript, k)) = Rest(AddScript, k + 1)
            BY <2>2, <3>1, RestTyped, Zenon
        <3> QED  BY <2>1, <2>3, <3>2
    <2>5. CASE Begun(k)
        <3>1. k \in {0, 1} /\ AddScript[k + 1] = DoIt("DROP", IF k = 0 THEN "del_img" ELSE "frame_del_item")
            BY <2>5, AddParts DEF Begun
        <3>2. /\ k = 0 => "del_img" \notin db'.triggers
              /\ k = 1 => db'.triggers = {}
              /\ HalfStyledLostTriggers'
            BY <1>0, <2>4, <2>5, <3>1, DropsGoOn DEF PageInv
        <3>3. CASE k = 0
            BY <1>1, <2>4, <3>2, <3>3 DEF PageInv, Begun
        <3>4. CASE k = 1
            <4>1. AfterAdd(2, db')
                BY <3>2, <3>4 DEF AfterAdd
            <4> QED  BY <1>1, <2>4, <3>2, <3>4, <4>1 DEF PageInv
        <3> QED  BY <3>1, <3>3, <3>4
    <2>6. CASE k >= 2 /\ AfterAdd(k, db)
        <3>1. AfterAdd(k + 1, db') /\ k + 1 >= 2
            BY <1>0, <2>3, <2>4, <2>6, AddGoesOn
        <3>2. HalfStyledLostTriggers'
            BY <2>3, <2>6, <3>1 DEF AfterAdd, HalfStyledLostTriggers, WholePage
        <3> QED  BY <1>1, <2>4, <3>1, <3>2 DEF PageInv
    <2> QED  BY <2>1, <2>5, <2>6
<1>2. CASE step = "sql_remove"
    <2>1. PICK k \in 0..7 : /\ script = Rest(RemoveScript, k)
                            /\ Begun(k) \/ (k >= 2 /\ AfterRemove(k, db))
        BY <1>2 DEF PageInv
    <2>2. RemoveScript \in Seq(Statement) /\ Len(RemoveScript) = 7 /\ k \in 0..Len(RemoveScript)
        BY RemoveParts
    <2>3. k < 7
        <3>1. k = Len(RemoveScript) => Rest(RemoveScript, k) = <<>>
            BY <2>2, RestTyped, Zenon
        <3> QED  BY <2>1, <2>2, <3>1
    <2>4. Head(script) = RemoveScript[k + 1] /\ script' = Rest(RemoveScript, k + 1) /\ k + 1 \in 0..7
        <3>1. k < Len(RemoveScript)
            BY <2>2, <2>3
        <3>2. /\ Head(Rest(RemoveScript, k)) = RemoveScript[k + 1]
              /\ Tail(Rest(RemoveScript, k)) = Rest(RemoveScript, k + 1)
            BY <2>2, <3>1, RestTyped, Zenon
        <3> QED  BY <2>1, <2>3, <3>2
    <2>5. CASE Begun(k)
        <3>1. k \in {0, 1} /\ RemoveScript[k + 1] = DoIt("DROP", IF k = 0 THEN "del_img" ELSE "frame_del_item")
            BY <2>5, RemoveParts DEF Begun
        <3>2. /\ k = 0 => "del_img" \notin db'.triggers
              /\ k = 1 => db'.triggers = {}
              /\ HalfStyledLostTriggers'
            BY <1>0, <2>4, <2>5, <3>1, DropsGoOn DEF PageInv
        <3>3. CASE k = 0
            BY <1>2, <2>4, <3>2, <3>3 DEF PageInv, Begun
        <3>4. CASE k = 1
            <4>1. AfterRemove(2, db')
                BY <3>2, <3>4 DEF AfterRemove
            <4> QED  BY <1>2, <2>4, <3>2, <3>4, <4>1 DEF PageInv
        <3> QED  BY <3>1, <3>3, <3>4
    <2>6. CASE k >= 2 /\ AfterRemove(k, db)
        <3>1. AfterRemove(k + 1, db') /\ k + 1 >= 2
            BY <1>0, <2>3, <2>4, <2>6, RemoveGoesOn
        <3>2. HalfStyledLostTriggers'
            BY <2>3, <2>6, <3>1 DEF AfterRemove, HalfStyledLostTriggers, WholePage
        <3> QED  BY <1>2, <2>4, <3>1, <3>2 DEF PageInv
    <2> QED  BY <2>1, <2>5, <2>6
<1> QED  BY <1>1, <1>2

LEMMA PageInductive == TypeOK /\ PageInv /\ [Next]_vars => PageInv'
<1> SUFFICES ASSUME TypeOK, PageInv, [Next]_vars PROVE PageInv'
    OBVIOUS
<1>1. CASE AddStyle \/ RemoveStyle
    <2>1. /\ db' = db
          /\ \/ step' = "sql_add" /\ script' = AddScript
             \/ step' = "sql_remove" /\ script' = RemoveScript
             \/ step' = "menu"
        BY <1>1 DEF AddStyle, RemoveStyle, StartStyle
    <2>2. AddScript = Rest(AddScript, 0) /\ RemoveScript = Rest(RemoveScript, 0)
        BY AddParts, RemoveParts DEF Rest
    <2> QED  BY <2>1, <2>2 DEF PageInv, Begun, HalfStyledLostTriggers, WholePage
<1>2. CASE Exec
    <2>1. CASE open /\ ~ Fails(Head(script), db) /\ db' = After(Head(script), db) /\ UNCHANGED <<step, open>>
        BY <1>2, <2>1, PageExec DEF Exec
    <2>2. CASE db' = db /\ ~ open'
        BY <2>2 DEF PageInv, HalfStyledLostTriggers, WholePage
    <2>3. \/ open /\ ~ Fails(Head(script), db) /\ db' = After(Head(script), db) /\ UNCHANGED <<step, open>>
          \/ db' = db /\ open' = FALSE
          \/ db' = db /\ open' = open /\ ~ open
        BY <1>2, Zenon DEF Exec
    <2> QED  BY <2>1, <2>2, <2>3
<1>3. CASE Rebuild
    <2>1. step' = "off" /\ db'.row = "pspemu" /\ db'.frames = {}
        BY <1>3 DEF Rebuild, Go
    <2> QED  BY <2>1 DEF PageInv, HalfStyledLostTriggers, WholePage
<1>4. CASE \/ OpenPage \/ InstallTheme \/ CheckDir \/ Backup \/ RemoveIcon \/ PowerLoss \/ Close \/ Mark
           \/ WriteIcon \/ WriteBg \/ WriteStartup \/ UninstallTheme \/ Wipe \/ Finish \/ Exit \/ Boot \/ Launch
    <2>1. db' = db /\ step' \notin {"sql_add", "sql_remove"}
        BY <1>4 DEF OpenPage, InstallTheme, CheckDir, Backup, RemoveIcon, PowerLoss, Close, Mark,
            WriteIcon, WriteBg, WriteStartup, UninstallTheme, Wipe, Finish, Exit, Boot, Launch, Put, Go, process
    <2> QED  BY <2>1 DEF PageInv, HalfStyledLostTriggers, WholePage
<1>5. CASE UNCHANGED vars
    BY <1>5 DEF vars, process, PageInv, Begun, HalfStyledLostTriggers, WholePage
<1> QED  BY <1>1, <1>2, <1>3, <1>4, <1>5 DEF Next

(* However often scripts fail or are interrupted, and are started again: a *)
(* page left half styled has lost both triggers, and no later script puts  *)
(* one back (main.c: sql_simple_exec, which closes the database on an      *)
(* error).                                                                 *)
THEOREM HalfStyledIsLeftAlone == Spec => []HalfStyledLostTriggers
<1>1. Init => PageInv
    BY DEF Init, PageInv, HalfStyledLostTriggers, WholePage
<1>2. PageInv => HalfStyledLostTriggers
    BY DEF PageInv
<1> QED  BY <1>1, <1>2, InitTyped, TypeInductive, PageInductive, PTL DEF Spec

-----------------------------------------------------------------------------
(* The theme, as long as nothing fails.                                    *)

(* While the installation is at its work the backup may be there without   *)
(* the icon of the theme; the wipe, which removes the files in any order,  *)
(* may stop with it only when nothing is left.                             *)
Working == {"rmicon", "icon0", "wipe"}
BackupInv ==
    faults = 0 /\ meta.file["icon0_"] # "none" /\ step \notin Working =>
        meta.file["icon0"] = "theme"

(* Without a fault now there was none before.                              *)
LEMMA NoneBefore ==
    ASSUME TypeOK, Fine \/ Wrong, faults' = 0
    PROVE  faults = 0 /\ Fine
BY LiveAreaAssumption DEF TypeOK, Fine, Wrong

LEMMA PageIcons ==
    ASSUME NEW m \in Metas, NEW f \in {"icon0", "icon0_"}
    PROVE  WithPage(m).file[f] = m.file[f]
BY DEF WithPage, Metas, FileNames

(* What the steps of the theme do to the icon and its backup.              *)
LEMMA ThemeKeeps ==
    ASSUME TypeOK, BackupInv, faults' = 0,
           \/ OpenPage \/ InstallTheme \/ CheckDir \/ Backup \/ RemoveIcon
           \/ WriteIcon \/ WriteBg \/ WriteStartup \/ UninstallTheme \/ Wipe \/ Finish
    PROVE  BackupInv'
<1> SUFFICES ASSUME meta'.file["icon0_"] # "none", step' \notin Working
             PROVE  meta'.file["icon0"] = "theme"
    BY DEF BackupInv
<1>1. /\ meta \in Metas /\ {"icon0", "icon0_", "bg0", "startup"} \subseteq FileNames
    BY DEF TypeOK, Metas, FileNames
<1>2. Fine /\ faults = 0
    <2>1. Fine \/ Wrong
        <3>1. CASE OpenPage \/ InstallTheme \/ CheckDir \/ UninstallTheme \/ Finish
            BY <3>1, Zenon DEF OpenPage, InstallTheme, CheckDir, UninstallTheme, Finish
        <3>2. CASE RemoveIcon
            BY <3>2, Zenon DEF RemoveIcon
        <3>3. CASE Wipe
            BY <3>3, Zenon DEF Wipe
        <3>4. CASE Backup \/ WriteIcon \/ WriteBg \/ WriteStartup
            BY <3>4, Zenon DEF Backup, WriteIcon, WriteBg, WriteStartup, Put
        <3> QED  BY <3>1, <3>2, <3>3, <3>4
    <2> QED  BY <2>1, NoneBefore
<1>3. ~ Wrong
    BY <1>2, LiveAreaAssumption DEF Wrong, TypeOK
<1>4. meta.file["icon0_"] # "none" /\ step \notin Working => meta.file["icon0"] = "theme"
    BY <1>2 DEF BackupInv
<1>5. CASE OpenPage \/ CheckDir
    <2>1. /\ meta'.file["icon0"] = meta.file["icon0"] /\ meta'.file["icon0_"] = meta.file["icon0_"]
          /\ step \in {"home", "dir"}
        BY <1>1, <1>5, PageIcons DEF OpenPage, CheckDir
    <2> QED  BY <1>4, <2>1 DEF Working
<1>6. CASE InstallTheme \/ Finish \/ UninstallTheme
    BY <1>4, <1>6 DEF InstallTheme, Finish, UninstallTheme, Working
<1>7. CASE Backup
    BY <1>3, <1>7 DEF Backup, Put, Go, Working
<1>8. CASE RemoveIcon
    BY <1>3, <1>8 DEF RemoveIcon, Go, Working
<1>9. CASE WriteIcon
    <2>1. meta' = IF HasFolder THEN [meta EXCEPT !.file["icon0"] = "theme"] ELSE meta
        BY <1>3, <1>9 DEF WriteIcon, Put
    <2>2. CASE HasFolder
        BY <1>1, <2>1, <2>2 DEF Metas
    <2>3. CASE ~ HasFolder
        BY <1>1, <2>1, <2>3 DEF HasFolder
    <2> QED  BY <2>2, <2>3
<1>10. CASE WriteBg \/ WriteStartup
    <2>1. /\ meta'.file["icon0"] = meta.file["icon0"] /\ meta'.file["icon0_"] = meta.file["icon0_"]
          /\ step \in {"bg0", "startup"}
        BY <1>1, <1>3, <1>10 DEF WriteBg, WriteStartup, Put, Metas
    <2> QED  BY <1>4, <2>1 DEF Working
<1>11. CASE Wipe
    <2>1. ~ HasFolder /\ meta' = meta
        BY <1>3, <1>11 DEF Wipe, process, Working
    <2> QED  BY <1>1, <2>1 DEF HasFolder
<1> QED  BY <1>5, <1>6, <1>7, <1>8, <1>9, <1>10, <1>11

(* The style touches neither, and what the system writes it writes only    *)
(* where no icon is.                                                       *)
LEMMA OthersKeep ==
    ASSUME TypeOK, BackupInv, faults' = 0,
           \/ AddStyle \/ RemoveStyle \/ Exec \/ Close \/ Mark
           \/ Launch \/ Exit \/ Rebuild \/ Boot \/ PowerLoss \/ UNCHANGED vars
    PROVE  BackupInv'
<1> SUFFICES ASSUME meta'.file["icon0_"] # "none", step' \notin Working
             PROVE  meta'.file["icon0"] = "theme"
    BY DEF BackupInv
<1>1. meta \in Metas /\ {"icon0", "icon0_"} \subseteq FileNames
    BY DEF TypeOK, Metas, FileNames
<1>2. faults = 0 /\ ~ Wrong
    <2>1. faults' = faults \/ Wrong
        BY DEF AddStyle, RemoveStyle, StartStyle, Exec, Close, Mark, Launch, Exit, Rebuild, Boot,
            PowerLoss, vars, Fine
    <2> QED  BY <2>1, LiveAreaAssumption DEF TypeOK, Wrong
<1>3. step \notin Working
    BY <1>2 DEF Working, AddStyle, RemoveStyle, StartStyle, Exec, Close, Mark, Launch, Exit, Rebuild,
        Boot, PowerLoss, vars, process
<1>4. meta.file["icon0_"] # "none" => meta.file["icon0"] = "theme"
    BY <1>2, <1>3 DEF BackupInv
<1>5. CASE Boot
    BY <1>1, <1>4, <1>5 DEF Boot, Metas
<1>6. CASE Mark
    <2>1. meta'.file = meta.file
        BY <1>1, <1>6 DEF Mark, Metas
    <2> QED  BY <1>4, <2>1
<1>7. CASE AddStyle \/ RemoveStyle \/ Exec \/ Close \/ Launch \/ Exit \/ Rebuild \/ UNCHANGED vars
    BY <1>4, <1>7 DEF AddStyle, RemoveStyle, StartStyle, Exec, Close, Launch, Exit, Rebuild, vars
<1> QED  BY <1>2, <1>5, <1>6, <1>7 DEF PowerLoss

LEMMA BackupInductive == TypeOK /\ BackupInv /\ [Next]_vars => BackupInv'
<1> SUFFICES ASSUME TypeOK, BackupInv, [Next]_vars PROVE BackupInv'
    OBVIOUS
<1>1. CASE faults' # 0
    BY <1>1 DEF BackupInv
<1>2. CASE faults' = 0
    BY <1>2, ThemeKeeps, OthersKeep DEF Next
<1> QED  BY <1>1, <1>2

(* As long as nothing has failed, a backup found by the menu means that    *)
(* the theme's icon is in place: whatever was installed, wiped, left       *)
(* without a reboot or opened before (main.c: install_theme_files,         *)
(* uninstall_theme_files, system_check).                                   *)
THEOREM BackupTells == Spec => []BackupTellsIfNothingFails
<1>1. Init => BackupInv
    BY DEF Init, BackupInv, FileNames
<1>2. BackupInv => BackupTellsIfNothingFails
    BY DEF BackupInv, BackupTellsIfNothingFails, BackupTold, Working
<1> QED  BY <1>1, <1>2, InitTyped, TypeInductive, BackupInductive, PTL DEF Spec

=============================================================================
