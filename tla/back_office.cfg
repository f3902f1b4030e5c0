CONSTANTS Parts={"notifier","sync","xml","admin","plans","voice","chats"}
 Workers={w1,w2} Operators={o1} MaxPending=1 MaxAttempts=2
 p1=p1 p2=p2 p3=p3 Codes={p1,p2,p3} NoCode=nocode PageSize=2 SafetyLimit=3 MaxSyncs=2 MaxChanges=2 SyncFaults=1
 Absent=Absent Unread=Unread MaxItems=2 MaxDeliveries=2 XmlFaults=2
 AdminFaults=1
 Suppliers={"s1","s2"} Unassigned="none"
 MaxRounds=2 HistoryLimit=6 MaxKept=1 Tokens=2 TurnCap=2 Budget=2 SimMishaps=1
 ChatFaults=2 MaxRestarts=1
Cases <- BCases
Lists <- BLists
Attachments <- BAttachments
Situations <- BSituations
Requests <- BRequests
Scripts <- BScripts
Inboxes <- BInboxes
PlanOrder <- BPlanOrder
SPECIFICATION BackOfficeSpec
INVARIANTS PendingKept  SyncCovers XmlStoredWhole OneActiveSecret SuggestionsLast RulesKept OneYesOneOrder 
CHECK_DEADLOCK FALSE
