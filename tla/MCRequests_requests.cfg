SPECIFICATION Spec
CONSTANTS
 a1=a1 a2=a2 Admin={a1,a2} NoCode=NoCode NoCount=NoCount
 Messages<-MCMessages Replies<-MCReplies Documents<-MCDocuments Items<-MCItems CountLists<-MCCountLists
 MaxIntakes=1 MaxPhotos=2
 Skus={"k1","k2"} Client={"c1"} VlmAnswers<-MCVlmAnswers Settings<-MCSettings MaxPoints=2 MaxCaptures=1 MaxRuns=1
 Looks<-MCLooks MaxSamples=2 MaxFrames=3
 DetPoint={"p","q"} Critical={"p"} Proves={"p"} Responses<-MCResponses
 Tenant={"t1","t2"} Texts<-MCTexts MaxDocs=2 MaxJobs=2 MaxProposals=1
 s1=s1 s2=s2 w1=w1 v1=v1 Seat={s1,s2} Place={w1} Release={v1} Item={i1,i2} MaxDrafts=1 MaxStandards=2 MaxTasks=1
 c1=c1 c2=c2 o1=o1 Camera={c1,c2} Thing={o1} DebounceFrames=2 Fallback=TRUE MaxLinks=2 MaxShots=2
 x1=x1 x2=x2 Wide=4 Photos={x1,x2} Scenes<-MCScenes Plans<-MCPlans PointCodes={"A-1","A.1","B"} SafeCode<-MCSafeCode MaxMeasured=2
INVARIANTS
 DraftFollowsText OnePrimary PassIsSupported
 LegacyPassIsWhole VideoTellsItsCaptures
 PassIsGuarded NothingGuessed DeskJobIsGated ReviewedOnEvidence ShotTellsItsJob EvidenceIsLocated
CHECK_DEADLOCK FALSE
