------------------------------ MODULE MCSerial ------------------------------
(***************************************************************************)
(* The programs at the serial line, for TLC.  A behaviour uses one of      *)
(* them.  The FIFOs have their real size and the messages their real       *)
(* length; a character is a number of its own.                             *)
(***************************************************************************)
EXTENDS Loader, Measure, Readline

VARIABLE used

Deadbeef == <<239, 190, 173, 222>>

\* In two of them, and in one followed by the magic word, the magic word stands
\* across the two.
LoadWords == {<<190, 173, 222, 239>>}

Message(n, first) == [k \in 1 .. n |-> first + k]
LoadingProgram == Message(16, 100)
ProgramLoaded  == Message(15, 200)
Frown          == Message(3, 300)
ProgramTooLarge == Message(41, 400)

kernelOnly  == <<kernelVars, download>>
measureOnly == <<prog, boardVars, hostVars>>
lineOnly    == <<c, i, rpc, line, crs>>

SerialInit == LoaderInit /\ MeasureInit /\ ReadlineInit
              /\ used \in {"loader", "measure", "readline"}
              /\ (used # "measure" => prog = "sort")

SerialNext ==
  /\ \/ used = "loader" /\ LoaderNext /\ UNCHANGED <<measureOnly, lineOnly>>
     \/ used = "measure" /\ MeasureNext /\ UNCHANGED <<kernelOnly, lineOnly>>
     \/ used = "readline" /\ ReadlineNext /\ UNCHANGED <<kernelOnly, measureOnly>>
  /\ UNCHANGED used

serialVars == <<loaderVars, measureVars, readlineVars, used>>

\* The fairness of LoaderSpec and MeasureSpec: what runs by itself does, and
\* the host's pauses end.
Delivers(tick) == tick /\ (wire_in # <<>> => wire_in' # wire_in)

SerialFairness ==
  /\ WF_serialVars(used = "loader" /\ (Kernel \/ HostHears \/ Delivers(ByteTime))
                   /\ UNCHANGED <<measureOnly, lineOnly, used>>)
  /\ WF_serialVars(used = "measure" /\ (Board \/ Host \/ Delivers(MeasureTick))
                   /\ UNCHANGED <<kernelOnly, lineOnly, used>>)

SerialSpec == SerialInit /\ [][SerialNext]_serialVars /\ SerialFairness
=============================================================================
