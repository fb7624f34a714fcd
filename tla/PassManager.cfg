SPECIFICATION Spec
CONSTANT Files = 4
INVARIANTS TypeOK StageBarrier ReportComplete TablesComplete
PROPERTIES Termination ImplementsCrossCheck
