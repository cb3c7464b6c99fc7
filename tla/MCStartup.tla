------------------------------- MODULE MCStartup -------------------------------
(***************************************************************************)
(* main: the files of PermutationFiles are read where Windows loads, when  *)
(* its windows are there but GLUT's loop is not yet running, and a missing *)
(* file ends the program.  That the matrix itself was read is taken for    *)
(* granted here.  Nothing the windows do depends on what the files held:   *)
(* sessions with files are followed to the end of the load, with one       *)
(* setting of the window system, and one without files from there on.      *)
(***************************************************************************)
EXTENDS MCWindows, MCPermutationFiles

VARIABLE user    \* asks for files or uses the windows; no step changes it

startupvars == <<vars, filevars, user>>

NoFiles == Session(<<2, 2>>, NoFile, NoFile, NoFile, NoFile)

StartupInit ==
    /\ Init /\ FilesInit
    /\ \/ user = "files" /\ ~nocontrols /\ announcing = "changed" /\ width = FirstWidth
       \/ user = "windows" /\ session = NoFiles /\ delivered = 0

ReadFiles == pc = "load" /\ FilesNext /\ UNCHANGED <<vars, user>>

Main ==
    /\ Start
    /\ pc = "load" => \/ pc' = "ended" /\ file = "refused"
                      \/ pc' = "post_constructor" /\ file = "ready" /\ user = "windows"
    /\ UNCHANGED <<filevars, user>>

GlutLoop == Loop /\ UNCHANGED <<filevars, user>>
Uses == User /\ UNCHANGED <<filevars, user>>

StartupNext == ReadFiles \/ Main \/ GlutLoop \/ Uses

StartupSpec ==
    /\ StartupInit /\ [][StartupNext]_startupvars
    /\ WF_startupvars(ReadFiles) /\ WF_startupvars(Main) /\ WF_startupvars(GlutLoop)
================================================================================
